---- MODULE Spec2Model ----
(***************************************************************************)
(* just-one: single-instance process supervision over a PID-file registry. *)
(* The registry (one PID file per name, its mtime the record time), the OS *)
(* process table (PIDs are reused), the clock, and a small number of       *)
(* concurrently running CLI invocations (handleRun, handleKill,            *)
(* handleKillAll) that share nothing but the registry directory.           *)
(***************************************************************************)
EXTENDS Integers, Sequences, FiniteSets, TLC

\* ---- program constants (milliseconds unless said otherwise) ----
DEFAULT_GRACE_PERIOD_MS == 5000
FORCE_KILL_WAIT_MS == 2000
CHECK_INTERVAL_MS == 100
START_TIME_TOLERANCE_MS == 5000
MAX_PID == 4194304

\* ---- bounds of the model ----
MaxTicks == 2
TickMs == 3000
MaxOps == 2
MaxSignals == 2
MaxCalls == 3
MaxBytes == 5
MaxClockMs == 8000

Names == {"svc", "app"}
NameOrder == <<"app", "svc">>
PIDs == {1, 2}
Invs == {1, 2}
\* --grace <secs>: absent (0 here) or a positive number of seconds
GraceOpts == {0, 1}

NoTime == -1
NoPid == 0
Foreign == 0
Free == -1

VARIABLES
  now,        \* the clock, ms
  isWindows,  \* process.platform === 'win32'
  procs,      \* OS process table: PID -> [alive, start, inst]
  reg,        \* registry: name -> [pid, mtime, by]
  inv,        \* the CLI invocations
  nops,       \* invocations begun so far
  overlap,    \* some invocation began while another was running
  slots,      \* how many invocations may run at the same time
  probe,      \* one call of a pure function on sampled inputs, and its result
  logs,       \* log artifacts: name -> subset of {"log", "log.1"}
  sup,        \* the foreground supervisor after setupSignalHandlers(child)
  tail        \* one tailLogFile follower and the log file it reads

vars == <<now, isWindows, procs, reg, inv, nops, overlap, slots, probe, logs,
         sup, tail>>

NoProc == [alive |-> FALSE, start |-> NoTime, inst |-> Free]
NoRec == [pid |-> NoPid, mtime |-> NoTime, by |-> 0]

IdleInv ==
  [pc |-> "idle", op |-> "none", name |-> "svc", ensure |-> FALSE, grace |-> 0,
   seq |-> 0, pid |-> NoPid, target |-> 0, verdict |-> "none", same |-> FALSE,
   phase |-> "none", graceMs |-> 0, t0 |-> NoTime, wake |-> NoTime,
   req1 |-> "none", req2 |-> "none", waited |-> NoTime,
   hits |-> {}, term |-> "none", deleted |-> FALSE, spawned |-> NoPid,
   wrote |-> FALSE, exit |-> -1, msg |-> "", todo |-> <<>>, failed |-> FALSE,
   daemon |-> FALSE, timeout |-> 0, cleaned |-> {}, kept |-> {},
   follow |-> FALSE, polls |-> 0, listed |-> {},
   prev |-> [op |-> "none", name |-> "svc", exit |-> -1, msg |-> ""]]

NoLogs == [n \in Names |-> {}]

NoSup == [pid |-> NoPid]

NoTail == [on |-> FALSE]

NoProbe == [pid |-> NoPid, mtime |-> NoTime, st |-> NoTime, result |-> FALSE,
            called |-> FALSE]

Abs(x) == IF x < 0 THEN -x ELSE x

\* ---- pid.ts ----
readPid_another(name) ==
  IF reg[name].pid = NoPid THEN NoPid ELSE 3 - reg[name].pid

readPid(name) == reg[name].pid

getPidFileMtime(name) == reg[name].mtime

AfterWritePid_keepsExisting(name, pid, by) ==
  IF reg[name].pid # NoPid THEN reg
  ELSE [reg EXCEPT ![name] = [pid |-> pid, mtime |-> now, by |-> by]]

\* writeFileSync(pidFile, String(pid)): whatever was there is overwritten.
AfterWritePid(name, pid, by) ==
  [reg EXCEPT ![name] = [pid |-> pid, mtime |-> now, by |-> by]]

AfterDeletePid_all(name) == [n \in Names |-> NoRec]

\* unlinkSync(getPidFilePath(name, pidDir))
AfterDeletePid(name) == [reg EXCEPT ![name] = NoRec]

\* ---- process.ts ----
isValidPid_positive(pid) == pid > 0

isValidPid(pid) == pid > 0 /\ pid <= MAX_PID

isProcessAlive_never(pid) == FALSE

isProcessAlive(pid) == isValidPid(pid) /\ pid \in PIDs /\ procs[pid].alive

\* The answers pidusage can give: the start time of a running process, or a
\* failure (null) for a process that is gone or cannot be queried.
getProcessStartTime(pid) ==
  IF isValidPid(pid) /\ pid \in PIDs /\ procs[pid].alive
  THEN {procs[pid].start, NoTime}
  ELSE {NoTime}

WithinTolerance_any(diff) == TRUE

WithinTolerance_strict(diff) == diff < START_TIME_TOLERANCE_MS

WithinTolerance(diff) == diff <= START_TIME_TOLERANCE_MS

isSameProcessInstance_noCompare(processStartTime, pidFileMtimeMs) ==
  processStartTime # NoTime

isSameProcessInstance(processStartTime, pidFileMtimeMs) ==
  IF processStartTime = NoTime THEN FALSE
  ELSE WithinTolerance(Abs(processStartTime - pidFileMtimeMs))

\* The request killProcess makes: SIGTERM on Unix, taskkill /T /F on Windows.
killProcessRequest == IF isWindows THEN "forceful" ELSE "graceful"

Running(i) == inv[i].pc \notin {"idle", "done"}

Finish(i, code, msg) ==
  [inv[i] EXCEPT !.pc = "done", !.exit = code, !.msg = msg, !.grace = 0]

\* ---- the environment ----
Tick ==
  /\ now + TickMs <= MaxTicks * TickMs
  /\ now' = now + TickMs
  /\ UNCHANGED <<isWindows, procs, reg, inv, nops, overlap, slots, probe, logs, sup, tail>>

\* Any process may exit at any moment; its PID becomes free.
ProcExit ==
  /\ \E p \in PIDs :
       /\ procs[p].alive
       /\ procs' = [procs EXCEPT ![p] = NoProc]
  /\ UNCHANGED <<now, isWindows, reg, inv, nops, overlap, slots, probe, logs, sup, tail>>

\* A PID some record or some running invocation still refers to.
Referenced(p) ==
  \/ \E n \in Names : reg[n].pid = p
  \/ \E i \in Invs : inv[i].pc \notin {"idle", "done"} /\ inv[i].pid = p

\* An unrelated program starts and the OS hands it a free PID. Only PIDs the
\* tool still refers to are followed: a stranger elsewhere is never looked at.
ForeignSpawn ==
  /\ \E p \in PIDs :
       /\ ~procs[p].alive
       /\ Referenced(p)
       /\ procs' = [procs EXCEPT ![p] = [alive |-> TRUE, start |-> now, inst |-> Foreign]]
  /\ UNCHANGED <<now, isWindows, reg, inv, nops, overlap, slots, probe, logs, sup, tail>>

\* ---- main(): dispatch of a parsed, validated command line ----
Begin(i, op, name, ensure, grace) ==
  /\ i <= slots
  /\ ~Running(i)
  /\ \A j \in Invs : j < i => Running(j)
  /\ nops < MaxOps
  /\ nops' = nops + 1
  /\ overlap' = (overlap \/ \E j \in Invs : j # i /\ Running(j))
  /\ inv' = [j \in Invs |->
       IF j = i
       THEN [IdleInv EXCEPT !.pc = IF op = "killAll" THEN "list" ELSE "read",
                            !.op = op, !.name = name, !.ensure = ensure,
                            !.grace = grace, !.seq = nops + 1]
       ELSE IF Running(j) THEN inv[j] ELSE IdleInv]
  /\ UNCHANGED <<now, isWindows, procs, reg, slots, probe, logs, sup, tail>>

main ==
  \E i \in Invs, grace \in GraceOpts :
    \/ \E name \in Names, ensure \in BOOLEAN : Begin(i, "start", name, ensure, grace)
    \/ \E name \in Names : Begin(i, "kill", name, FALSE, grace)
    \/ Begin(i, "killAll", "svc", FALSE, grace)

\* ---- terminateProcess and its helpers ----
\* options.grace !== undefined ? options.grace * 1000 : undefined, then
\* gracePeriodMs ?? DEFAULT_GRACE_PERIOD_MS
GraceMsOf(grace) == IF grace = 0 THEN DEFAULT_GRACE_PERIOD_MS ELSE grace * 1000

\* terminateProcess returns to its caller.
Returned(i, outcome) ==
  [inv[i] EXCEPT !.pc = "after", !.term = outcome, !.phase = "none",
                 !.t0 = NoTime, !.wake = NoTime, !.graceMs = 0, !.waited = NoTime,
                 !.polls = 0]

terminateProcess_check_noAliveTest(i) ==
  /\ inv[i].pc = "tcheck"
  /\ inv' = [inv EXCEPT ![i] =
       IF ~isValidPid(inv[i].pid)
       THEN Returned(i, "StillAlive")
       ELSE [@ EXCEPT !.pc = "tkill", !.graceMs = GraceMsOf(inv[i].grace)]]
  /\ UNCHANGED <<now, isWindows, procs, reg, nops, overlap, slots, probe, logs, sup, tail>>

\* terminateProcess, entry: validate, then "already dead? nothing to do".
terminateProcess_check(i) ==
  /\ inv[i].pc = "tcheck"
  /\ inv' = [inv EXCEPT ![i] =
       IF ~isValidPid(inv[i].pid)
       THEN Returned(i, "StillAlive")
       ELSE IF ~isProcessAlive(inv[i].pid)
       THEN Returned(i, "Dead")
       ELSE [@ EXCEPT !.pc = "tkill", !.graceMs = GraceMsOf(inv[i].grace)]]
  /\ UNCHANGED <<now, isWindows, procs, reg, nops, overlap, slots, probe, logs, sup, tail>>

\* killProcess(pid), then waitForProcessToDie takes its startTime.
killProcess(i) ==
  /\ inv[i].pc = "tkill"
  /\ inv' = [inv EXCEPT ![i] =
       IF isValidPid(inv[i].pid) /\ isProcessAlive(inv[i].pid)
       THEN [@ EXCEPT !.pc = "wloop", !.phase = "grace", !.t0 = now,
                      !.req1 = killProcessRequest,
                      !.hits = @ \cup {procs[inv[i].pid].inst}]
       ELSE [@ EXCEPT !.pc = "wloop", !.phase = "grace", !.t0 = now]]
  /\ UNCHANGED <<now, isWindows, procs, reg, nops, overlap, slots, probe, logs, sup, tail>>

WaitTimeout_zero(i) == 0

WaitTimeout(i) == IF inv[i].phase = "grace" THEN inv[i].graceMs ELSE FORCE_KILL_WAIT_MS

LoopContinues_never(elapsed, timeoutMs) == FALSE

LoopContinues_always(elapsed, timeoutMs) == TRUE

LoopContinues(elapsed, timeoutMs) == elapsed < timeoutMs

\* One evaluation of waitForProcessToDie's loop head and body (or, after the
\* loop, of its final liveness check): one call of isProcessAlive, counted in
\* polls until terminateProcess returns.
waitForProcessToDie(i) ==
  /\ inv[i].pc = "wloop"
  /\ LET died == ~isProcessAlive(inv[i].pid)
         inLoop == LoopContinues(now - inv[i].t0, WaitTimeout(i))
     IN inv' = [inv EXCEPT ![i] =
          IF died
          THEN Returned(i, "Dead")
          ELSE IF inLoop
          THEN [@ EXCEPT !.pc = "wsleep", !.wake = now + CHECK_INTERVAL_MS,
                         !.polls = @ + 1]
          ELSE IF inv[i].phase = "grace"
          THEN [@ EXCEPT !.pc = "tforce", !.polls = @ + 1]
          ELSE Returned(i, "StillAlive")]
  /\ UNCHANGED <<now, isWindows, procs, reg, nops, overlap, slots, probe, logs, sup, tail>>

\* setTimeout(resolve, CHECK_INTERVAL_MS) fires.
waitForProcessToDie_wake(i) ==
  /\ inv[i].pc = "wsleep"
  /\ now >= inv[i].wake
  /\ inv' = [inv EXCEPT ![i] = [@ EXCEPT !.pc = "wloop", !.wake = NoTime]]
  /\ UNCHANGED <<now, isWindows, procs, reg, nops, overlap, slots, probe, logs, sup, tail>>

\* forceKillProcess(pid), then the second waitForProcessToDie starts.
forceKillProcess(i) ==
  /\ inv[i].pc = "tforce"
  /\ inv' = [inv EXCEPT ![i] =
       IF isValidPid(inv[i].pid) /\ isProcessAlive(inv[i].pid)
       THEN [@ EXCEPT !.pc = "wloop", !.phase = "force", !.t0 = now,
                      !.req2 = "forceful", !.waited = now - inv[i].t0,
                      !.hits = @ \cup {procs[inv[i].pid].inst}]
       ELSE [@ EXCEPT !.pc = "wloop", !.phase = "force", !.t0 = now,
                      !.waited = now - inv[i].t0]]
  /\ UNCHANGED <<now, isWindows, procs, reg, nops, overlap, slots, probe, logs, sup, tail>>

terminateProcess ==
  \E i \in Invs :
    \/ terminateProcess_check(i)
    \/ killProcess(i)
    \/ waitForProcessToDie(i)
    \/ waitForProcessToDie_wake(i)
    \/ forceKillProcess(i)

\* ---- handleKill ----
NothingToKill_never(pid) == FALSE

\* pid === null
NothingToKill(pid) == pid = NoPid

handleKill_read(i) ==
  /\ inv[i].pc = "read" /\ inv[i].op = "kill"
  /\ LET pid == readPid(inv[i].name)
     IN inv' = [inv EXCEPT ![i] =
          IF NothingToKill(pid)
          THEN Finish(i, 0, "No process found")
          ELSE [@ EXCEPT !.pc = "verify", !.pid = pid,
                         !.target = reg[inv[i].name].by]]
  /\ UNCHANGED <<now, isWindows, procs, reg, nops, overlap, slots, probe, logs, sup, tail>>

\* The outcome the design names for one verification (section 4.1): Dead when
\* the PID is not running, Verified when its start time is known and within
\* 5000 ms of the record time, Stale otherwise.
Verdict(alive, st, mt) ==
  IF ~alive THEN "Dead"
  ELSE IF st # NoTime /\ mt # NoTime /\ Abs(st - mt) <= 5000 THEN "Verified"
  ELSE "Stale"

\* getPidFileMtime, then await isSameProcessInstance.
Verify(i, st) ==
  LET mt == getPidFileMtime(inv[i].name)
  IN [inv[i] EXCEPT !.verdict = Verdict(isProcessAlive(inv[i].pid), st, mt),
                    !.same = (mt # NoTime /\ isSameProcessInstance(st, mt))]

handleKill_verify(i) ==
  /\ inv[i].pc = "verify" /\ inv[i].op = "kill"
  /\ \E st \in getProcessStartTime(inv[i].pid) :
       LET v == Verify(i, st)
       IN inv' = [inv EXCEPT ![i] =
            [v EXCEPT !.pc = IF v.same THEN "tcheck" ELSE "stale"]]
  /\ UNCHANGED <<now, isWindows, procs, reg, nops, overlap, slots, probe, logs, sup, tail>>

\* Not the same instance: report, delete the PID file, exit 0.
handleKill_stale(i) ==
  /\ inv[i].pc = "stale" /\ inv[i].op = "kill"
  /\ LET alive == isProcessAlive(inv[i].pid)
     IN inv' = [inv EXCEPT ![i] =
          [Finish(i, 0, IF alive THEN "belongs to a different process, not killing"
                                 ELSE "is not running, cleaning up PID file")
             EXCEPT !.deleted = TRUE]]
  /\ reg' = AfterDeletePid(inv[i].name)
  /\ UNCHANGED <<now, isWindows, procs, nops, overlap, slots, probe, logs, sup, tail>>

KillDeletes_always(terminated) == TRUE

KillDeletes_unlessDead(terminated) == ~terminated

KillDeletes(terminated) == terminated

\* terminateProcess has returned.
handleKill_after(i) ==
  /\ inv[i].pc = "after" /\ inv[i].op = "kill"
  /\ IF KillDeletes(inv[i].term = "Dead")
     THEN /\ reg' = AfterDeletePid(inv[i].name)
          /\ inv' = [inv EXCEPT ![i] = [Finish(i, 0, "killed") EXCEPT !.deleted = TRUE]]
     ELSE /\ reg' = reg
          /\ inv' = [inv EXCEPT ![i] = Finish(i, 1, "Failed to kill")]
  /\ UNCHANGED <<now, isWindows, procs, nops, overlap, slots, probe, logs, sup, tail>>

handleKill ==
  \E i \in Invs :
    \/ handleKill_read(i)
    \/ handleKill_verify(i)
    \/ handleKill_stale(i)
    \/ handleKill_after(i)

\* ---- handleRun ----
handleRun_read(i) ==
  /\ inv[i].pc = "read" /\ inv[i].op = "start"
  /\ LET existingPid == readPid(inv[i].name)
     IN inv' = [inv EXCEPT ![i] =
          IF existingPid = NoPid
          THEN [@ EXCEPT !.pc = "spawn"]
          ELSE [@ EXCEPT !.pc = "verify", !.pid = existingPid,
                         !.target = reg[inv[i].name].by]]
  /\ UNCHANGED <<now, isWindows, procs, reg, nops, overlap, slots, probe, logs, sup, tail>>

EnsureSkips_never(shouldKill, ensure) == FALSE

EnsureSkips(shouldKill, ensure) == shouldKill /\ ensure

handleRun_verify(i) ==
  /\ inv[i].pc = "verify" /\ inv[i].op = "start"
  /\ \E st \in getProcessStartTime(inv[i].pid) :
       LET v == Verify(i, st)
       IN inv' = [inv EXCEPT ![i] =
            IF EnsureSkips(v.same, inv[i].ensure)
            THEN [v EXCEPT !.pc = "done", !.exit = 0, !.msg = "already running, skipping"]
            ELSE [v EXCEPT !.pc = IF v.same THEN "tcheck" ELSE "stale"]]
  /\ UNCHANGED <<now, isWindows, procs, reg, nops, overlap, slots, probe, logs, sup, tail>>

\* Not the same instance: note a live stranger, never kill; delete the PID file.
handleRun_stale(i) ==
  /\ inv[i].pc = "stale" /\ inv[i].op = "start"
  /\ inv' = [inv EXCEPT ![i] =
       [@ EXCEPT !.pc = "spawn", !.deleted = TRUE,
                 !.msg = IF isProcessAlive(inv[i].pid)
                         THEN "Stale PID file detected, skipping kill" ELSE ""]]
  /\ reg' = AfterDeletePid(inv[i].name)
  /\ UNCHANGED <<now, isWindows, procs, nops, overlap, slots, probe, logs, sup, tail>>

handleRun_after_keepsRecord(i) ==
  /\ inv[i].pc = "after" /\ inv[i].op = "start"
  /\ inv' = [inv EXCEPT ![i] = [@ EXCEPT !.pc = "spawn"]]
  /\ reg' = reg
  /\ UNCHANGED <<now, isWindows, procs, nops, overlap, slots, probe, logs, sup, tail>>

MsgMayStillBeRunning == "Warning: process may still be running"

StartProceeds_onlyIfDead(terminated) == terminated

\* if (!terminated) logError(warning): no return, whatever terminated is.
StartProceeds(terminated) == TRUE

\* terminateProcess has returned (a warning on false); delete the PID file.
handleRun_after(i) ==
  /\ inv[i].pc = "after" /\ inv[i].op = "start"
  /\ IF StartProceeds(inv[i].term = "Dead")
     THEN /\ inv' = [inv EXCEPT ![i] =
               [@ EXCEPT !.pc = "spawn", !.deleted = TRUE,
                         !.msg = IF inv[i].term = "Dead" THEN @
                                 ELSE MsgMayStillBeRunning]]
          /\ reg' = AfterDeletePid(inv[i].name)
     ELSE /\ inv' = [inv EXCEPT ![i] = Finish(i, 1, MsgMayStillBeRunning)]
          /\ reg' = reg
  /\ UNCHANGED <<now, isWindows, procs, nops, overlap, slots, probe, logs, sup, tail>>

\* rotateLogIfNeeded: a log file over the size limit replaces the backup.
AfterRotate(name) ==
  {logs} \cup (IF "log" \in logs[name]
               THEN {[logs EXCEPT ![name] = {"log.1"}]} ELSE {})

\* Daemon mode: rotateLogIfNeeded, then openSync(logPath, 'a') creates the log
\* file; foreground mode touches no log file.
AfterOpenLog(i) ==
  IF inv[i].daemon
  THEN {[lg EXCEPT ![inv[i].name] = @ \cup {"log"}] : lg \in AfterRotate(inv[i].name)}
  ELSE {logs}

MsgFailedToStart == "Failed to start process"

AfterSpawnThrow_goesOn(i) == [inv[i] EXCEPT !.pc = "write"]

\* catch (err): "Failed to start process", return 1; writePid is not reached.
AfterSpawnThrow(i) == Finish(i, 1, MsgFailedToStart)

\* spawnCommand / spawnCommandDaemon: a child with a fresh PID, or a throw.
handleRun_spawn(i) ==
  /\ inv[i].pc = "spawn"
  /\ logs' \in AfterOpenLog(i)
  /\ \/ \E p \in PIDs :
          /\ ~procs[p].alive
          /\ procs' = [procs EXCEPT ![p] =
               [alive |-> TRUE, start |-> now, inst |-> inv[i].seq]]
          /\ inv' = [inv EXCEPT ![i] = [@ EXCEPT !.pc = "write", !.spawned = p]]
     \/ /\ procs' = procs
        /\ inv' = [inv EXCEPT ![i] = AfterSpawnThrow(i)]
  /\ UNCHANGED <<now, isWindows, reg, nops, overlap, slots, probe, sup, tail>>

handleRun_write_killsOnThrow(i) ==
  /\ inv[i].pc = "write"
  /\ \/ /\ reg' = AfterWritePid(inv[i].name, inv[i].spawned, inv[i].seq)
        /\ procs' = procs
        /\ inv' = [inv EXCEPT ![i] = [Finish(i, 0, "started") EXCEPT !.wrote = TRUE]]
     \/ /\ reg' = reg
        /\ procs' = [procs EXCEPT ![inv[i].spawned] = NoProc]
        /\ inv' = [inv EXCEPT ![i] = Finish(i, 1, "Failed to start process")]
  /\ UNCHANGED <<now, isWindows, nops, overlap, slots, probe, logs, sup, tail>>

\* writePid(name, pid): the record, or a throw caught by handleRun.
handleRun_write(i) ==
  /\ inv[i].pc = "write"
  /\ \/ /\ reg' = AfterWritePid(inv[i].name, inv[i].spawned, inv[i].seq)
        /\ inv' = [inv EXCEPT ![i] = [Finish(i, 0, "started") EXCEPT !.wrote = TRUE]]
     \/ /\ reg' = reg
        /\ inv' = [inv EXCEPT ![i] = Finish(i, 1, "Failed to start process")]
  /\ UNCHANGED <<now, isWindows, procs, nops, overlap, slots, probe, logs, sup, tail>>

handleRun ==
  \E i \in Invs :
    \/ handleRun_read(i)
    \/ handleRun_verify(i)
    \/ handleRun_stale(i)
    \/ handleRun_after(i)
    \/ handleRun_spawn(i)
    \/ handleRun_write(i)

\* ---- handleKillAll ----
RECURSIVE listFrom(_)
listFrom(k) ==
  IF k > Len(NameOrder) THEN <<>>
  ELSE LET n == NameOrder[k]
       IN (IF reg[n].mtime = NoTime THEN <<>>
           ELSE <<[name |-> n, pid |-> reg[n].pid, by |-> reg[n].by]>>)
          \o listFrom(k + 1)

listPids == listFrom(1)

NextItem_stopsOnFailure(r, rest) ==
  IF rest = <<>> \/ r.failed
  THEN [r EXCEPT !.pc = "done", !.exit = IF r.failed THEN 1 ELSE 0,
                 !.msg = "kill-all", !.todo = <<>>, !.grace = 0]
  ELSE [r EXCEPT !.pc = "verify", !.todo = rest, !.name = rest[1].name,
                 !.pid = rest[1].pid, !.target = rest[1].by, !.hits = {},
                 !.req1 = "none", !.req2 = "none", !.term = "none"]

\* Enters the loop at the first item, or returns when nothing is left.
NextItem(r, rest) ==
  IF rest = <<>>
  THEN [r EXCEPT !.pc = "done", !.exit = IF r.failed THEN 1 ELSE 0,
                 !.msg = "kill-all", !.todo = <<>>, !.grace = 0]
  ELSE [r EXCEPT !.pc = "verify", !.todo = rest, !.name = rest[1].name,
                 !.pid = rest[1].pid, !.target = rest[1].by, !.hits = {},
                 !.req1 = "none", !.req2 = "none", !.term = "none"]

handleKillAll_list(i) ==
  /\ inv[i].pc = "list" /\ inv[i].op = "killAll"
  /\ inv' = [inv EXCEPT ![i] =
       IF listPids = <<>> THEN Finish(i, 0, "No tracked processes")
       ELSE NextItem(inv[i], listPids)]
  /\ UNCHANGED <<now, isWindows, procs, reg, nops, overlap, slots, probe, logs, sup, tail>>

handleKillAll_verify(i) ==
  /\ inv[i].pc = "verify" /\ inv[i].op = "killAll"
  /\ \E st \in getProcessStartTime(inv[i].pid) :
       LET v == Verify(i, st)
       IN IF inv[i].pid <= 0
          THEN /\ inv' = [inv EXCEPT ![i] =
                    NextItem([@ EXCEPT !.deleted = TRUE], Tail(inv[i].todo))]
               /\ reg' = AfterDeletePid(inv[i].name)
          ELSE IF v.same
          THEN /\ inv' = [inv EXCEPT ![i] = [v EXCEPT !.pc = "tcheck"]]
               /\ reg' = reg
          ELSE /\ inv' = [inv EXCEPT ![i] =
                    NextItem([v EXCEPT !.deleted = TRUE], Tail(inv[i].todo))]
               /\ reg' = AfterDeletePid(inv[i].name)
  /\ UNCHANGED <<now, isWindows, procs, nops, overlap, slots, probe, logs, sup, tail>>

handleKillAll_after(i) ==
  /\ inv[i].pc = "after" /\ inv[i].op = "killAll"
  /\ IF inv[i].term = "Dead"
     THEN /\ reg' = AfterDeletePid(inv[i].name)
          /\ inv' = [inv EXCEPT ![i] =
               NextItem([@ EXCEPT !.deleted = TRUE], Tail(inv[i].todo))]
     ELSE /\ reg' = reg
          /\ inv' = [inv EXCEPT ![i] =
               NextItem([@ EXCEPT !.failed = TRUE], Tail(inv[i].todo))]
  /\ UNCHANGED <<now, isWindows, procs, nops, overlap, slots, probe, logs, sup, tail>>

handleKillAll ==
  \E i \in Invs :
    \/ handleKillAll_list(i)
    \/ handleKillAll_verify(i)
    \/ handleKillAll_after(i)

Init ==
  /\ now = 0
  /\ isWindows \in BOOLEAN
  /\ procs = [p \in PIDs |-> NoProc]
  /\ reg = [n \in Names |-> NoRec]
  /\ inv = [i \in Invs |-> IdleInv]
  /\ nops = 0
  /\ overlap = FALSE
  /\ slots = 1
  /\ probe = NoProbe
  /\ logs = NoLogs
  /\ sup = NoSup
  /\ tail = NoTail

\* The same program with two invocations free to run at the same time.
InitConc ==
  /\ now = 0
  /\ isWindows \in BOOLEAN
  /\ procs = [p \in PIDs |-> NoProc]
  /\ reg = [n \in Names |-> NoRec]
  /\ inv = [i \in Invs |-> IdleInv]
  /\ nops = 0
  /\ overlap = FALSE
  /\ slots = 2
  /\ probe = NoProbe
  /\ logs = NoLogs
  /\ sup = NoSup
  /\ tail = NoTail

Next ==
  \/ Tick
  \/ ProcExit
  \/ ForeignSpawn
  \/ main
  \/ terminateProcess
  \/ handleKill
  \/ handleRun
  \/ handleKillAll

Spec == Init /\ [][Next]_vars

SpecConc == InitConc /\ [][Next]_vars

\* ---- isSameProcessInstance on its own, over sampled inputs ----
TimeSamples == {0, 1, 4999, 5000, 5001, 5002, 10000, 10001}
PidSamples == {-1, 0, 1, 2, MAX_PID, MAX_PID + 1}

InitVerify ==
  /\ now = 10001
  /\ isWindows \in BOOLEAN
  /\ procs \in [PIDs -> {NoProc} \cup
                   {[alive |-> TRUE, start |-> t, inst |-> Foreign] : t \in TimeSamples}]
  /\ reg = [n \in Names |-> NoRec]
  /\ inv = [i \in Invs |-> IdleInv]
  /\ nops = 0
  /\ overlap = FALSE
  /\ slots = 0
  /\ probe \in [pid : PidSamples, mtime : TimeSamples \cup {NoTime}, st : {NoTime},
                 result : {FALSE}, called : {FALSE}]
  /\ logs = NoLogs
  /\ sup = NoSup
  /\ tail = NoTail

\* pidFileMtime !== null && (await isSameProcessInstance(pid, pidFileMtime))
VerifyCall ==
  /\ ~probe.called
  /\ \E st \in getProcessStartTime(probe.pid) :
       probe' = [probe EXCEPT !.st = st, !.called = TRUE,
                   !.result = (probe.mtime # NoTime /\ isSameProcessInstance(st, probe.mtime))]
  /\ UNCHANGED <<now, isWindows, procs, reg, inv, nops, overlap, slots, logs, sup, tail>>

NextVerify == VerifyCall

SpecVerify == InitVerify /\ [][NextVerify]_vars

\* ---- cli.ts: parseArgs and validateOptions ----
MAX_NAME_LENGTH == 255
MAX_PID_DIR_LENGTH == 1024

\* Raw option values are sequences of characters.
Includes(v, c) == \E k \in 1..Len(v) : v[k] = c

IncludesDotDot(v) == \E k \in 1..(Len(v) - 1) : v[k] = "." /\ v[k + 1] = "."

\* /^[\s.]*$/
OnlyDotsOrSpace(v) == \A k \in 1..Len(v) : v[k] \in {" ", "."}

isValidName_anything(name) == TRUE

isValidName(name) ==
  /\ Len(name) > 0 /\ Len(name) <= MAX_NAME_LENGTH
  /\ ~(Includes(name, "/") \/ Includes(name, "\\") \/ IncludesDotDot(name))
  /\ ~OnlyDotsOrSpace(name)

isValidPidDir(dir) ==
  /\ Len(dir) > 0 /\ Len(dir) <= MAX_PID_DIR_LENGTH
  /\ ~IncludesDotDot(dir)

\* !value || value.startsWith('-')
MissingValue(v) == Len(v) = 0 \/ v[1] = "-"

\* The name a valid raw value denotes.
TextOf(v) == IF v = <<"s", "v", "c">> THEN "svc" ELSE "app"

Absent == [given |-> FALSE, value |-> <<>>]
Given(v) == [given |-> TRUE, value |-> v]
\* A numeric option: not given, or its text and what Number(text) makes of it.
NoNumber == [given |-> FALSE, value |-> <<>>, isNaN |-> FALSE, num |-> 0]
Numeric(v, n) == [given |-> TRUE, value |-> v, isNaN |-> FALSE, num |-> n]
NotANumber(v) == [given |-> TRUE, value |-> v, isNaN |-> TRUE, num |-> 0]

NoArgs ==
  [name |-> Absent, kill |-> Absent, status |-> Absent, wait |-> Absent,
   pidDir |-> Absent, killAll |-> FALSE, clean |-> FALSE, ensure |-> FALSE,
   daemon |-> FALSE, timeout |-> NoNumber, grace |-> NoNumber, command |-> FALSE,
   logs |-> Absent, pid |-> Absent, tail |-> FALSE, lines |-> NoNumber,
   list |-> FALSE, help |-> FALSE, version |-> FALSE]

\* An option that was not given is "" (a name), 0 (a number) or FALSE.
NoOptions ==
  [name |-> "", kill |-> "", status |-> "", wait |-> "", killAll |-> FALSE,
   clean |-> FALSE, ensure |-> FALSE, daemon |-> FALSE, timeout |-> 0,
   grace |-> 0, command |-> FALSE, logs |-> "", pid |-> "", tail |-> FALSE,
   lines |-> 0, list |-> FALSE, help |-> FALSE, version |-> FALSE]

NameError(o) == o.given /\ (MissingValue(o.value) \/ ~isValidName(o.value))

NumberError(o) == o.given /\ (MissingValue(o.value) \/ o.isNaN \/ o.num <= 0)

NameValue(o) == IF o.given THEN TextOf(o.value) ELSE ""

\* parseArgs: the first option that is refused ends the parse with an error.
parseArgs(args) ==
  IF \/ NameError(args.name) \/ NameError(args.kill)
     \/ NameError(args.status) \/ NameError(args.wait)
     \/ NameError(args.logs) \/ NameError(args.pid)
     \/ NumberError(args.lines)
     \/ (args.pidDir.given /\ (MissingValue(args.pidDir.value)
                               \/ ~isValidPidDir(args.pidDir.value)))
     \/ NumberError(args.timeout) \/ NumberError(args.grace)
  THEN [success |-> FALSE, options |-> NoOptions]
  ELSE [success |-> TRUE,
        options |->
          [name |-> NameValue(args.name), kill |-> NameValue(args.kill),
           status |-> NameValue(args.status), wait |-> NameValue(args.wait),
           killAll |-> args.killAll, clean |-> args.clean,
           ensure |-> args.ensure, daemon |-> args.daemon,
           timeout |-> args.timeout.num, grace |-> args.grace.num,
           command |-> args.command,
           logs |-> NameValue(args.logs), pid |-> NameValue(args.pid),
           tail |-> args.tail, lines |-> args.lines.num, list |-> args.list,
           help |-> args.help, version |-> args.version]]

Accepted == [success |-> TRUE, error |-> ""]
Refused(error) == [success |-> FALSE, error |-> error]

ErrTail == "Option --tail can only be used with --logs"
ErrLines == "Option --lines can only be used with --logs"
ErrTimeoutValue == "Option --timeout requires a positive number"
ErrTimeout == "Option --timeout can only be used with --wait"
ErrName == "Option --name is required when running a command"
ErrCommand == "No command specified"

\* validateOptions, its tests in the order of the code.
validateOptions(options) ==
  IF options.help \/ options.version THEN Accepted
  ELSE IF options.list THEN Accepted
  ELSE IF options.kill # "" THEN Accepted
  ELSE IF options.logs # "" THEN Accepted
  ELSE IF options.tail THEN Refused(ErrTail)
  ELSE IF options.lines # 0 THEN Refused(ErrLines)
  ELSE IF options.status # "" THEN Accepted
  ELSE IF options.killAll THEN Accepted
  ELSE IF options.clean THEN Accepted
  ELSE IF options.pid # "" THEN Accepted
  ELSE IF options.wait # ""
  THEN (IF options.timeout # 0 /\ options.timeout <= 0
        THEN Refused(ErrTimeoutValue) ELSE Accepted)
  ELSE IF options.timeout # 0 THEN Refused(ErrTimeout)
  ELSE IF options.name = "" THEN Refused(ErrName)
  ELSE IF ~options.command THEN Refused(ErrCommand)
  ELSE Accepted

\* ---- main(): parse, validate, dispatch ----
Svc == <<"s", "v", "c">>
App == <<"a", "p", "p">>
One == <<"1">>

RunArgs(n) == [NoArgs EXCEPT !.name = Given(n), !.command = TRUE]

\* Command lines main() accepts: starting, killing and cleaning ...
OpsArgs ==
  {RunArgs(Svc),
   [RunArgs(App) EXCEPT !.daemon = TRUE],
   [NoArgs EXCEPT !.kill = Given(Svc), !.grace = Numeric(One, 1)],
   [NoArgs EXCEPT !.killAll = TRUE, !.grace = Numeric(One, 1)],
   [NoArgs EXCEPT !.clean = TRUE]}

\* ... and starting, asking and waiting.
QueryArgs ==
  {RunArgs(Svc),
   [RunArgs(Svc) EXCEPT !.ensure = TRUE],
   [NoArgs EXCEPT !.status = Given(Svc)],
   [NoArgs EXCEPT !.wait = Given(Svc)],
   [NoArgs EXCEPT !.wait = Given(Svc), !.timeout = Numeric(One, 1)]}

GoodArgs == OpsArgs \cup QueryArgs

\* Command lines main() refuses: a bad name, a bad directory, a bad number,
\* a missing name or command, --timeout without --wait.
BadArgs ==
  {RunArgs(<<".", ".">>), RunArgs(<<"a", "/", "b">>), RunArgs(<<"a", "\\", "b">>),
   RunArgs(<<" ", ".">>), RunArgs(<<>>), RunArgs(<<"-", "q">>),
   RunArgs([k \in 1..(MAX_NAME_LENGTH + 1) |-> "a"]),
   [NoArgs EXCEPT !.kill = Given(<<".", ".", "/", "x">>)],
   [NoArgs EXCEPT !.status = Given(<<>>)],
   [NoArgs EXCEPT !.wait = Given(<<"a", ".", ".", "b">>)],
   [NoArgs EXCEPT !.clean = TRUE, !.pidDir = Given(<<".", ".", "/", "d">>)],
   [NoArgs EXCEPT !.killAll = TRUE, !.pidDir = Given(<<>>)],
   [NoArgs EXCEPT !.wait = Given(Svc), !.timeout = Numeric(<<"0">>, 0)],
   [NoArgs EXCEPT !.wait = Given(Svc), !.timeout = NotANumber(<<"x">>)],
   [NoArgs EXCEPT !.wait = Given(Svc), !.timeout = Numeric(<<"-", "1">>, -1)],
   [NoArgs EXCEPT !.kill = Given(Svc), !.grace = Numeric(<<"0">>, 0)],
   [RunArgs(Svc) EXCEPT !.grace = NotANumber(<<"x">>)],
   [RunArgs(Svc) EXCEPT !.timeout = Numeric(One, 1)],
   [NoArgs EXCEPT !.command = TRUE],
   [NoArgs EXCEPT !.name = Given(Svc)],
   NoArgs}

ArgSamples == OpsArgs \cup BadArgs

\* The handler main() hands the options to, in the order main() tests them.
HandlerOf(options) ==
  IF options.list THEN [op |-> "list", name |-> "svc"]
  ELSE IF options.kill # "" THEN [op |-> "kill", name |-> options.kill]
  ELSE IF options.killAll THEN [op |-> "killAll", name |-> "svc"]
  ELSE IF options.status # "" THEN [op |-> "status", name |-> options.status]
  ELSE IF options.logs # "" THEN [op |-> "logs", name |-> options.logs]
  ELSE IF options.clean THEN [op |-> "clean", name |-> "svc"]
  ELSE IF options.pid # "" THEN [op |-> "pid", name |-> options.pid]
  ELSE IF options.wait # "" THEN [op |-> "wait", name |-> options.wait]
  ELSE [op |-> "start", name |-> options.name]

Summary(r) == [op |-> r.op, name |-> r.name, exit |-> r.exit, msg |-> r.msg]

Dispatch(i, args) ==
  /\ i <= slots
  /\ ~Running(i)
  /\ \A j \in Invs : j < i => Running(j)
  /\ nops < MaxOps
  /\ nops' = nops + 1
  /\ overlap' = (overlap \/ \E j \in Invs : j # i /\ Running(j))
  /\ LET parseResult == parseArgs(args)
         options == parseResult.options
         h == HandlerOf(options)
         fresh == [IdleInv EXCEPT !.seq = nops + 1, !.prev = Summary(inv[i])]
     IN inv' = [j \in Invs |->
          IF j # i THEN (IF Running(j) THEN inv[j] ELSE IdleInv)
          ELSE IF ~parseResult.success \/ ~validateOptions(options).success
          THEN [fresh EXCEPT !.pc = "done", !.op = "rejected", !.exit = 1,
                             !.msg = "Use --help for usage information"]
          ELSE [fresh EXCEPT !.pc = IF h.op \in {"list", "killAll", "clean"}
                                    THEN "list" ELSE "read",
                             !.op = h.op, !.name = h.name,
                             !.ensure = (h.op = "start" /\ options.ensure),
                             !.daemon = (h.op = "start" /\ options.daemon),
                             !.follow = (h.op = "logs" /\ options.tail),
                             !.grace = IF h.op \in {"start", "kill", "killAll"}
                                       THEN options.grace ELSE 0,
                             !.timeout = IF h.op = "wait" THEN options.timeout ELSE 0]]
  /\ UNCHANGED <<now, isWindows, procs, reg, slots, probe, logs, sup, tail>>

mainArgs == \E i \in Invs, args \in ArgSamples : Dispatch(i, args)

mainQuery == \E i \in Invs, args \in QueryArgs : Dispatch(i, args)

\* ---- handleStatus ----
handleStatus_read(i) ==
  /\ inv[i].pc = "read" /\ inv[i].op = "status"
  /\ LET pid == readPid(inv[i].name)
     IN inv' = [inv EXCEPT ![i] =
          IF pid = NoPid
          THEN Finish(i, 1, "not tracked")
          ELSE [@ EXCEPT !.pc = "verify", !.pid = pid,
                         !.target = reg[inv[i].name].by]]
  /\ UNCHANGED <<now, isWindows, procs, reg, nops, overlap, slots, probe, logs, sup, tail>>

StatusRunning_whenAlive(same, alive) == same \/ alive

StatusRunning(same, alive) == same

MsgRunning == "running"
MsgStoppedDifferent == "stopped (PID belongs to a different process)"
MsgStopped == "stopped"

\* await isSameProcessInstance, then the report, which asks isProcessAlive.
handleStatus_verify(i) ==
  /\ inv[i].pc = "verify" /\ inv[i].op = "status"
  /\ \E st \in getProcessStartTime(inv[i].pid) :
       inv' = [inv EXCEPT ![i] = [Verify(i, st) EXCEPT !.pc = "report"]]
  /\ UNCHANGED <<now, isWindows, procs, reg, nops, overlap, slots, probe, logs, sup, tail>>

handleStatus_report_cleans(i) ==
  /\ inv[i].pc = "report" /\ inv[i].op = "status"
  /\ inv' = [inv EXCEPT ![i] =
       IF inv[i].same THEN Finish(i, 0, MsgRunning) ELSE Finish(i, 1, MsgStopped)]
  /\ reg' = IF inv[i].same THEN reg ELSE AfterDeletePid(inv[i].name)
  /\ UNCHANGED <<now, isWindows, procs, nops, overlap, slots, probe, logs, sup, tail>>

handleStatus_report(i) ==
  /\ inv[i].pc = "report" /\ inv[i].op = "status"
  /\ LET alive == isProcessAlive(inv[i].pid)
     IN inv' = [inv EXCEPT ![i] =
          IF StatusRunning(inv[i].same, alive) THEN Finish(i, 0, MsgRunning)
          ELSE IF alive THEN Finish(i, 1, MsgStoppedDifferent)
          ELSE Finish(i, 1, MsgStopped)]
  /\ UNCHANGED <<now, isWindows, procs, reg, nops, overlap, slots, probe, logs, sup, tail>>

handleStatus ==
  \E i \in Invs :
    \/ handleStatus_read(i)
    \/ handleStatus_verify(i)
    \/ handleStatus_report(i)

\* ---- handleClean ----
\* deleteLogFiles: the log file and its backup.
AfterDeleteLogFiles(name) == [logs EXCEPT ![name] = {}]

NextCleanItem(r, rest) ==
  IF rest = <<>>
  THEN [r EXCEPT !.pc = "done", !.exit = 0, !.todo = <<>>,
                 !.msg = IF r.cleaned = {} THEN "No stale PID files found"
                         ELSE "Cleaned stale PID files"]
  ELSE [r EXCEPT !.pc = "verify", !.todo = rest, !.name = rest[1].name,
                 !.pid = rest[1].pid, !.target = rest[1].by]

handleClean_list(i) ==
  /\ inv[i].pc = "list" /\ inv[i].op = "clean"
  /\ inv' = [inv EXCEPT ![i] =
       IF listPids = <<>> THEN Finish(i, 0, "No PID files to clean")
       ELSE NextCleanItem(inv[i], listPids)]
  /\ UNCHANGED <<now, isWindows, procs, reg, nops, overlap, slots, probe, logs, sup, tail>>

CleanRemoves_unlessAlive(exists, same, alive) == ~exists \/ ~alive

CleanRemoves(exists, same, alive) == ~exists \/ ~same

\* One turn of the loop: an unparseable file goes at once, any other record
\* goes unless isSameProcessInstance answers true.
handleClean_item(i) ==
  /\ inv[i].pc = "verify" /\ inv[i].op = "clean"
  /\ \E st \in getProcessStartTime(inv[i].pid) :
       LET v == Verify(i, st)
           name == inv[i].name
       IN IF CleanRemoves(inv[i].pid > 0, v.same, isProcessAlive(inv[i].pid))
          THEN /\ reg' = AfterDeletePid(name)
               /\ logs' = AfterDeleteLogFiles(name)
               /\ inv' = [inv EXCEPT ![i] =
                    NextCleanItem([v EXCEPT !.cleaned = @ \cup {name}],
                                  Tail(inv[i].todo))]
          ELSE /\ reg' = reg
               /\ logs' = logs
               /\ inv' = [inv EXCEPT ![i] =
                    NextCleanItem([v EXCEPT !.kept = @ \cup {name}],
                                  Tail(inv[i].todo))]
  /\ UNCHANGED <<now, isWindows, procs, nops, overlap, slots, probe, sup, tail>>

handleClean ==
  \E i \in Invs :
    \/ handleClean_list(i)
    \/ handleClean_item(i)

\* ---- handleWait ----
pollInterval == 500

\* options.timeout !== undefined ? options.timeout * 1000 : undefined
TimeoutMsOf(timeout) == timeout * 1000

EndWait(i, code, msg) ==
  [Finish(i, code, msg) EXCEPT !.t0 = NoTime, !.wake = NoTime, !.timeout = 0]

\* readPid, then the first isProcessAlive, then startTime = Date.now().
handleWait_read(i) ==
  /\ inv[i].pc = "read" /\ inv[i].op = "wait"
  /\ LET pid == readPid(inv[i].name)
     IN inv' = [inv EXCEPT ![i] =
          IF pid = NoPid THEN EndWait(i, 1, "No process found")
          ELSE IF ~isProcessAlive(pid)
          THEN [EndWait(i, 1, "is not running") EXCEPT !.pid = pid]
          ELSE [@ EXCEPT !.pc = "poll", !.pid = pid, !.t0 = now,
                         !.target = reg[inv[i].name].by]]
  /\ UNCHANGED <<now, isWindows, procs, reg, nops, overlap, slots, probe, logs, sup, tail>>

TimedOut_never(timeout, elapsed) == FALSE

TimedOut(timeout, elapsed) == timeout # 0 /\ elapsed >= TimeoutMsOf(timeout)

\* while (isProcessAlive(pid)) { timed out? return 1; sleep }  return 0
handleWait_poll(i) ==
  /\ inv[i].pc = "poll" /\ inv[i].op = "wait"
  /\ inv' = [inv EXCEPT ![i] =
       IF ~isProcessAlive(inv[i].pid) THEN EndWait(i, 0, "has exited")
       ELSE IF TimedOut(inv[i].timeout, now - inv[i].t0)
       THEN EndWait(i, 1, "Timeout waiting for process")
       ELSE [@ EXCEPT !.pc = "sleep", !.wake = now + pollInterval]]
  /\ UNCHANGED <<now, isWindows, procs, reg, nops, overlap, slots, probe, logs, sup, tail>>

handleWait_wake(i) ==
  /\ inv[i].pc = "sleep" /\ inv[i].op = "wait"
  /\ now >= inv[i].wake
  /\ inv' = [inv EXCEPT ![i] = [@ EXCEPT !.pc = "poll", !.wake = NoTime]]
  /\ UNCHANGED <<now, isWindows, procs, reg, nops, overlap, slots, probe, logs, sup, tail>>

handleWait ==
  \E i \in Invs :
    \/ handleWait_read(i)
    \/ handleWait_poll(i)
    \/ handleWait_wake(i)

\* ---- every command, from the command line on ----
Earlier == -2

\* What an earlier run may have left for a name: nothing, the record of a
\* process that has exited since, or a PID file that does not parse.
LeftRecords ==
  {NoRec, [pid |-> NoPid, mtime |-> 0, by |-> Earlier],
   [pid |-> 1, mtime |-> 0, by |-> Earlier]}

InitOps ==
  /\ now = 0
  /\ isWindows = FALSE
  /\ procs = [p \in PIDs |-> NoProc]
  /\ \E r \in LeftRecords : reg = [n \in Names |-> IF n = "svc" THEN r ELSE NoRec]
  /\ logs = NoLogs
  /\ inv = [i \in Invs |-> IdleInv]
  /\ nops = 0
  /\ overlap = FALSE
  /\ slots = 1
  /\ probe = NoProbe
  /\ sup = NoSup
  /\ tail = NoTail

NextOps ==
  \/ Tick
  \/ ProcExit
  \/ ForeignSpawn
  \/ mainArgs
  \/ terminateProcess
  \/ handleKill
  \/ handleRun
  \/ handleKillAll
  \/ handleClean

SpecOps == InitOps /\ [][NextOps]_vars

NextQuery ==
  \/ Tick
  \/ ProcExit
  \/ ForeignSpawn
  \/ mainQuery
  \/ terminateProcess
  \/ handleRun
  \/ handleStatus
  \/ handleWait

SpecQuery == InitOps /\ [][NextQuery]_vars

\* ---- the process.ts functions called directly, over sampled PIDs ----
\* The command isProcessAlive runs to ask the OS about a PID.
AliveProbe == IF isWindows THEN "tasklist" ELSE "kill -0"

\* The command killProcess runs to end a process.
KillRequest == IF isWindows THEN "taskkill /T /F" ELSE "SIGTERM"

\* The command forceKillProcess runs to end a process.
ForceRequest == IF isWindows THEN "taskkill /T /F" ELSE "SIGKILL"

\* Each call gives the returned value and the OS calls made on the way.
isProcessAlive_call(pid) ==
  IF ~isValidPid(pid) THEN {[ret |-> "false", calls |-> {}]}
  ELSE {[ret |-> IF isProcessAlive(pid) THEN "true" ELSE "false",
         calls |-> {AliveProbe}]}

getProcessStartTime_call(pid) ==
  IF ~isValidPid(pid) THEN {[ret |-> "null", calls |-> {}]}
  ELSE {[ret |-> IF st = NoTime THEN "null" ELSE "time", calls |-> {"pidusage"}] :
          st \in getProcessStartTime(pid)}

\* !isValidPid(pid) || !isProcessAlive(pid), then the request, which the OS
\* may refuse.
killProcess_call(pid) ==
  IF ~isValidPid(pid) THEN {[ret |-> "false", calls |-> {}]}
  ELSE IF ~isProcessAlive(pid) THEN {[ret |-> "false", calls |-> {AliveProbe}]}
  ELSE {[ret |-> r, calls |-> {AliveProbe, KillRequest}] : r \in {"true", "false"}}

forceKillProcess_call(pid) ==
  IF ~isValidPid(pid) THEN {[ret |-> "false", calls |-> {}]}
  ELSE IF ~isProcessAlive(pid) THEN {[ret |-> "false", calls |-> {AliveProbe}]}
  ELSE {[ret |-> r, calls |-> {AliveProbe, ForceRequest}] : r \in {"true", "false"}}

PidFns == {"isProcessAlive", "getProcessStartTime", "killProcess", "forceKillProcess"}

CallOf(fn, pid) ==
  CASE fn = "isProcessAlive" -> isProcessAlive_call(pid)
    [] fn = "getProcessStartTime" -> getProcessStartTime_call(pid)
    [] fn = "killProcess" -> killProcess_call(pid)
    [] OTHER -> forceKillProcess_call(pid)

\* One direct call of fn(pid), and terminateProcess(pid) about to be entered.
InitPid ==
  /\ now = 0
  /\ isWindows \in BOOLEAN
  /\ procs \in [PIDs -> {NoProc, [alive |-> TRUE, start |-> 0, inst |-> Foreign]}]
  /\ probe \in [pid : PidSamples, fn : PidFns, ret : {"none"}, calls : {{}},
                 called : {FALSE}]
  /\ reg = [n \in Names |-> NoRec]
  /\ inv = [i \in Invs |->
       IF i = 1 THEN [IdleInv EXCEPT !.pc = "tcheck", !.pid = probe.pid]
       ELSE IdleInv]
  /\ nops = 0
  /\ overlap = FALSE
  /\ slots = 0
  /\ logs = NoLogs
  /\ sup = NoSup
  /\ tail = NoTail

PidCall ==
  /\ ~probe.called
  /\ \E r \in CallOf(probe.fn, probe.pid) :
       probe' = [probe EXCEPT !.ret = r.ret, !.calls = r.calls, !.called = TRUE]
  /\ UNCHANGED <<now, isWindows, procs, reg, inv, nops, overlap, slots, logs, sup, tail>>

NextPid ==
  \/ Tick
  \/ ProcExit
  \/ PidCall
  \/ terminateProcess

SpecPid == InitPid /\ [][NextPid]_vars

\* ---- setupSignalHandlers: the foreground supervisor ----
WINDOWS_GRACEFUL_TIMEOUT_MS == 2000

Signals == {"SIGINT", "SIGTERM"}

NoCode == -1
NoSignal == "none"
StillRunning == -1

\* What the child's 'exit' event can carry: (code, null), (null, signal), and
\* the (null, null) the handler's `code ?? 0` allows for.
ChildEnds ==
  {[code |-> c, signal |-> NoSignal] : c \in {0, 3, NoCode}} \cup
  {[code |-> NoCode, signal |-> s] : s \in {"SIGTERM", "SIGINT", "SIGKILL"}}

\* taskkill /PID <pid> /T /F ends the child with exit code 1.
TaskkillEnd == [code |-> 1, signal |-> NoSignal]

SupOf(p) ==
  [pid |-> p, got |-> <<>>, fwd |-> <<>>, timer |-> NoTime, fired |-> FALSE,
   forced |-> FALSE, ended |-> FALSE, code |-> NoCode, signal |-> NoSignal,
   exit |-> StillRunning]

SignalExit_always143(signal) == 143

\* 128 + (signal === 'SIGTERM' ? 15 : signal === 'SIGINT' ? 2 : 1)
SignalExit(signal) ==
  128 + (IF signal = "SIGTERM" THEN 15 ELSE IF signal = "SIGINT" THEN 2 ELSE 1)

\* if (signal) process.exit(128 + ...); process.exit(code ?? 0)
ExitCodeOf(code, signal) ==
  IF signal # NoSignal THEN SignalExit(signal)
  ELSE IF code = NoCode THEN 0 ELSE code

ArmsTimer_never(timer) == FALSE

\* forceKillTimer === null
ArmsTimer(timer) == timer = NoTime

\* The supervisor receives SIGINT or SIGTERM: handleSignal. The clock of the
\* model must still be able to reach the deadline of a timer set here.
handleSignal ==
  /\ sup.pid # NoPid /\ sup.exit = StillRunning
  /\ Len(sup.got) < MaxSignals
  /\ now + WINDOWS_GRACEFUL_TIMEOUT_MS <= MaxTicks * TickMs
  /\ \E s \in Signals :
       sup' =
         IF ~isValidPid(sup.pid) THEN [sup EXCEPT !.got = Append(@, s)]
         ELSE IF isWindows
         THEN IF ArmsTimer(sup.timer)
              THEN [sup EXCEPT !.got = Append(@, s),
                               !.timer = now + WINDOWS_GRACEFUL_TIMEOUT_MS]
              ELSE [sup EXCEPT !.got = Append(@, s)]
         ELSE [sup EXCEPT !.got = Append(@, s), !.fwd = Append(@, "SIGTERM")]
  /\ UNCHANGED <<now, isWindows, procs, reg, inv, nops, overlap, slots, probe,
                 logs, tail>>

\* The force-kill timer fires: forceKillWindows.
forceKillWindows ==
  /\ sup.pid # NoPid /\ sup.exit = StillRunning
  /\ sup.timer # NoTime /\ ~sup.fired /\ now >= sup.timer
  /\ sup' = [sup EXCEPT !.fired = TRUE,
                        !.forced = isValidPid(sup.pid) /\ isProcessAlive(sup.pid)]
  /\ UNCHANGED <<now, isWindows, procs, reg, inv, nops, overlap, slots, probe,
                 logs, tail>>

\* The child ends on its own account or by a signal from anyone.
ChildExits ==
  /\ sup.pid # NoPid /\ procs[sup.pid].alive
  /\ \E e \in ChildEnds :
       sup' = [sup EXCEPT !.ended = TRUE, !.code = e.code, !.signal = e.signal]
  /\ procs' = [procs EXCEPT ![sup.pid] = NoProc]
  /\ UNCHANGED <<now, isWindows, reg, inv, nops, overlap, slots, probe, logs,
                 tail>>

\* The child ends because taskkill /F was run on it.
ChildKilled ==
  /\ sup.pid # NoPid /\ procs[sup.pid].alive /\ sup.forced
  /\ sup' = [sup EXCEPT !.ended = TRUE, !.code = TaskkillEnd.code,
                        !.signal = TaskkillEnd.signal]
  /\ procs' = [procs EXCEPT ![sup.pid] = NoProc]
  /\ UNCHANGED <<now, isWindows, reg, inv, nops, overlap, slots, probe, logs,
                 tail>>

\* child.on('exit', (code, signal) => ...)
onChildExit ==
  /\ sup.pid # NoPid /\ sup.ended /\ sup.exit = StillRunning
  /\ sup' = [sup EXCEPT !.timer = NoTime,
                        !.exit = ExitCodeOf(sup.code, sup.signal)]
  /\ UNCHANGED <<now, isWindows, procs, reg, inv, nops, overlap, slots, probe,
                 logs, tail>>

InitSup ==
  /\ now = 0
  /\ isWindows \in BOOLEAN
  /\ \E p \in PIDs :
       /\ procs = [q \in PIDs |->
            IF q = p THEN [alive |-> TRUE, start |-> 0, inst |-> 1] ELSE NoProc]
       /\ sup = SupOf(p)
  /\ reg = [n \in Names |-> NoRec]
  /\ inv = [i \in Invs |-> IdleInv]
  /\ nops = 0
  /\ overlap = FALSE
  /\ slots = 0
  /\ probe = NoProbe
  /\ logs = NoLogs
  /\ tail = NoTail

NextSup ==
  \/ Tick
  \/ handleSignal
  \/ forceKillWindows
  \/ ChildExits
  \/ ChildKilled
  \/ onChildExit

SpecSup == InitSup /\ [][NextSup]_vars

\* The supervisor's own steps, the clock and the effect of taskkill /F are not
\* postponed forever; nothing obliges the child to end by itself.
SpecSupFair ==
  /\ SpecSup
  /\ WF_vars(Tick)
  /\ WF_vars(forceKillWindows)
  /\ WF_vars(ChildKilled)
  /\ WF_vars(onChildExit)

\* ---- pid.ts on the text of the PID file ----
Digits == <<"0", "1", "2", "3", "4", "5", "6", "7", "8", "9">>

IsDigit(c) == \E d \in 0..9 : Digits[d + 1] = c

DigitOf(c) == CHOOSE d \in 0..9 : Digits[d + 1] = c

IsSpace(c) == c \in {" ", "\n", "\t"}

\* String(pid) of an integer.
RECURSIVE StringOf(_)
StringOf(n) ==
  IF n < 0 THEN <<"-">> \o StringOf(-n)
  ELSE IF n < 10 THEN <<Digits[n + 1]>>
  ELSE Append(StringOf(n \div 10), Digits[(n % 10) + 1])

RECURSIVE TrimStart(_)
TrimStart(s) ==
  IF s # <<>> /\ IsSpace(s[1]) THEN TrimStart(Tail(s)) ELSE s

RECURSIVE TrimEnd(_)
TrimEnd(s) ==
  IF s # <<>> /\ IsSpace(s[Len(s)]) THEN TrimEnd(SubSeq(s, 1, Len(s) - 1))
  ELSE s

\* content.trim()
Trim(s) == TrimEnd(TrimStart(s))

RECURSIVE LeadingDigits(_)
LeadingDigits(s) ==
  IF s = <<>> \/ ~IsDigit(s[1]) THEN <<>>
  ELSE <<s[1]>> \o LeadingDigits(Tail(s))

RECURSIVE ValueOf(_)
ValueOf(ds) ==
  IF ds = <<>> THEN 0
  ELSE ValueOf(SubSeq(ds, 1, Len(ds) - 1)) * 10 + DigitOf(ds[Len(ds)])

\* parseInt(content, 10): leading white space, a sign, then the longest run of
\* digits; NaN when there is no digit.
parseInt(s) ==
  LET t == TrimStart(s)
      neg == t # <<>> /\ t[1] = "-"
      u == IF t # <<>> /\ t[1] \in {"-", "+"} THEN Tail(t) ELSE t
      ds == LeadingDigits(u)
  IN IF ds = <<>> THEN [nan |-> TRUE, val |-> 0]
     ELSE [nan |-> FALSE, val |-> IF neg THEN -ValueOf(ds) ELSE ValueOf(ds)]

NoFile == [exists |-> FALSE, text |-> <<>>]

FileOf(text) == [exists |-> TRUE, text |-> text]

\* readPid on the file: null (NoPid) for a missing file, NaN, or pid <= 0.
readPidFile(file) ==
  IF ~file.exists THEN NoPid
  ELSE LET pid == parseInt(Trim(file.text))
       IN IF pid.nan \/ pid.val <= 0 THEN NoPid ELSE pid.val

AfterWritePidFile_appends(file, pid) == FileOf(file.text \o StringOf(pid))

\* writeFileSync(pidFile, String(pid), 'utf8')
AfterWritePidFile(file, pid) == FileOf(StringOf(pid))

\* deletePid: [the file afterwards, the value returned]
deletePidFile(file) ==
  IF ~file.exists THEN [file |-> file, ret |-> FALSE]
  ELSE [file |-> NoFile, ret |-> TRUE]

\* PID files found in the directory before the calls, and the PIDs written.
FoundFiles ==
  {NoFile, FileOf(<<"1", "2">>), FileOf(<<"a", "b", "c">>), FileOf(<<>>),
   FileOf(<<"7", "\n">>), FileOf(<<"0">>)}

WrittenPids == {1, 10, 4242, MAX_PID}

InitReg ==
  /\ now = 0
  /\ isWindows \in BOOLEAN
  /\ procs = [p \in PIDs |-> NoProc]
  /\ reg = [n \in Names |-> NoRec]
  /\ inv = [i \in Invs |-> IdleInv]
  /\ nops = 0
  /\ overlap = FALSE
  /\ slots = 0
  /\ probe \in [files : [Names -> FoundFiles], n : {0}, fn : {"none"},
                 name : {"svc"}, pid : {NoPid}, retPid : {NoPid},
                 retBool : {FALSE}]
  /\ logs = NoLogs
  /\ sup = NoSup
  /\ tail = NoTail

writePid_call ==
  /\ probe.n < MaxCalls
  /\ \E name \in Names, pid \in WrittenPids :
       probe' = [probe EXCEPT
         !.files[name] = AfterWritePidFile(probe.files[name], pid),
         !.n = @ + 1, !.fn = "writePid", !.name = name, !.pid = pid,
         !.retPid = NoPid, !.retBool = FALSE]
  /\ UNCHANGED <<now, isWindows, procs, reg, inv, nops, overlap, slots, logs,
                 sup, tail>>

readPid_call ==
  /\ probe.n < MaxCalls
  /\ \E name \in Names :
       probe' = [probe EXCEPT
         !.n = @ + 1, !.fn = "readPid", !.name = name, !.pid = NoPid,
         !.retPid = readPidFile(probe.files[name]), !.retBool = FALSE]
  /\ UNCHANGED <<now, isWindows, procs, reg, inv, nops, overlap, slots, logs,
                 sup, tail>>

deletePid_call ==
  /\ probe.n < MaxCalls
  /\ \E name \in Names :
       LET r == deletePidFile(probe.files[name])
       IN probe' = [probe EXCEPT
            !.files[name] = r.file,
            !.n = @ + 1, !.fn = "deletePid", !.name = name, !.pid = NoPid,
            !.retPid = NoPid, !.retBool = r.ret]
  /\ UNCHANGED <<now, isWindows, procs, reg, inv, nops, overlap, slots, logs,
                 sup, tail>>

NextReg ==
  \/ writePid_call
  \/ readPid_call
  \/ deletePid_call

SpecReg == InitReg /\ [][NextReg]_vars

\* ---- rotateLogIfNeeded on sizes and contents ----
DEFAULT_MAX_LOG_SIZE == 10485760

NoLog == [exists |-> FALSE, size |-> 0, data |-> "none"]

LogOf(size, data) == [exists |-> TRUE, size |-> size, data |-> data]

\* getLogFileSize: 0 when statSync throws.
getLogFileSize(log) == IF log.exists THEN log.size ELSE 0

KeepsLog_below(size, maxSize) == size < maxSize

\* size <= maxSize
KeepsLog(size, maxSize) == size <= maxSize

\* [the log and the backup afterwards, the value returned]
rotateLogIfNeeded(log, bak, maxSize) ==
  IF KeepsLog(getLogFileSize(log), maxSize)
  THEN [log |-> log, bak |-> bak, ret |-> FALSE]
  ELSE [log |-> NoLog, bak |-> log, ret |-> TRUE]

LogSizes ==
  {0, 100, 101, DEFAULT_MAX_LOG_SIZE - 1, DEFAULT_MAX_LOG_SIZE,
   DEFAULT_MAX_LOG_SIZE + 1}

LogSamples == {NoLog} \cup {LogOf(s, "new") : s \in LogSizes}

BackupSamples == {NoLog, LogOf(7, "old"), LogOf(DEFAULT_MAX_LOG_SIZE + 1, "old")}

MaxSizes == {0, 100, DEFAULT_MAX_LOG_SIZE}

InitRotate ==
  /\ now = 0
  /\ isWindows = FALSE
  /\ procs = [p \in PIDs |-> NoProc]
  /\ reg = [n \in Names |-> NoRec]
  /\ inv = [i \in Invs |-> IdleInv]
  /\ nops = 0
  /\ overlap = FALSE
  /\ slots = 0
  /\ probe \in [log0 : LogSamples, bak0 : BackupSamples, maxSize : MaxSizes,
                 log : {NoLog}, bak : {NoLog}, ret : {FALSE}, called : {FALSE}]
  /\ logs = NoLogs
  /\ sup = NoSup
  /\ tail = NoTail

rotateLogIfNeeded_call ==
  /\ ~probe.called
  /\ LET r == rotateLogIfNeeded(probe.log0, probe.bak0, probe.maxSize)
     IN probe' = [probe EXCEPT !.log = r.log, !.bak = r.bak, !.ret = r.ret,
                               !.called = TRUE]
  /\ UNCHANGED <<now, isWindows, procs, reg, inv, nops, overlap, slots, logs,
                 sup, tail>>

NextRotate == rotateLogIfNeeded_call

SpecRotate == InitRotate /\ [][NextRotate]_vars

\* ---- tailLogFile: following a log file ----
\* Bytes a writer appends: "a" and the line terminator, one byte each, and the
\* two bytes C3 A9 of the character e-acute.
Bytes == {"a", "\n", "C3", "A9"}

Replacement == "FFFD"

\* buf.toString('utf8'): a complete sequence gives its character, every byte
\* of an incomplete or stray sequence gives U+FFFD.
RECURSIVE Utf8Decode(_)
Utf8Decode(b) ==
  IF b = <<>> THEN <<>>
  ELSE IF b[1] = "C3" /\ Len(b) >= 2 /\ b[2] = "A9"
  THEN <<"e'">> \o Utf8Decode(SubSeq(b, 3, Len(b)))
  ELSE IF b[1] \in {"C3", "A9"} THEN <<Replacement>> \o Utf8Decode(Tail(b))
  ELSE <<b[1]>> \o Utf8Decode(Tail(b))

\* The bytes of a string in UTF-8 (U+FFFD is EF BF BD).
RECURSIVE Utf8Encode(_)
Utf8Encode(s) ==
  IF s = <<>> THEN <<>>
  ELSE (IF s[1] = "e'" THEN <<"C3", "A9">>
        ELSE IF s[1] = Replacement THEN <<"EF", "BF", "BD">>
        ELSE <<s[1]>>) \o Utf8Encode(Tail(s))

\* chunk.split('\n'): always at least one part.
RECURSIVE SplitLines(_)
SplitLines(s) ==
  IF \A k \in 1..Len(s) : s[k] # "\n" THEN <<s>>
  ELSE LET k == CHOOSE j \in 1..Len(s) :
                  s[j] = "\n" /\ \A h \in 1..(j - 1) : s[h] # "\n"
       IN <<SubSeq(s, 1, k - 1)>> \o SplitLines(SubSeq(s, k + 1, Len(s)))

\* A writer of UTF-8 text appends whole characters, yet a reader may see the
\* file between the two bytes of one.
MayAppend(file, b) ==
  IF file # <<>> /\ file[Len(file)] = "C3" THEN b = "A9" ELSE b # "A9"

\* setInterval(checkForChanges, pollIntervalMs) is running; offset is the size
\* of the file when following began, counted from there on. gone: the path
\* names no file; wake: when the interval fires next, where a clock is kept;
\* shrinks and mark: how often the file was emptied or replaced, and how many
\* lines had been emitted when it last was.
TailOf(file) ==
  [on |-> TRUE, file |-> file, base |-> Len(file), offset |-> Len(file),
   partialLine |-> <<>>, out |-> <<>>, stopped |-> FALSE, gone |-> FALSE,
   wake |-> NoTime, shrinks |-> 0, mark |-> 0]

\* The file between two polls.
appendToLog ==
  /\ tail.on
  /\ Len(tail.file) < MaxBytes
  /\ \E b \in Bytes :
       /\ MayAppend(tail.file, b)
       /\ tail' = [tail EXCEPT !.file = Append(@, b)]
  /\ UNCHANGED <<now, isWindows, procs, reg, inv, nops, overlap, slots, probe,
                 logs, sup>>

\* buf.toString('utf8') of the bytes read
DecodeChunk(chunk) == Utf8Decode(chunk)

\* The follower t after one run of checkForChanges.
AfterCheckForChanges(t) ==
  LET newSize == Len(t.file)
  IN IF t.gone THEN t
     ELSE IF newSize <= t.offset
     THEN [t EXCEPT !.offset = newSize]
     ELSE LET chunk == SubSeq(t.file, t.offset + 1, newSize)
              split == SplitLines(DecodeChunk(chunk))
              parts == [split EXCEPT ![1] = t.partialLine \o @]
              lastPart == parts[Len(parts)]
              lines == SubSeq(parts, 1, Len(parts) - 1)
          IN [t EXCEPT !.offset = newSize,
                       !.partialLine = lastPart,
                       !.out = @ \o lines]

\* One run of checkForChanges.
checkForChanges ==
  /\ tail.on /\ ~tail.stopped
  /\ tail' = AfterCheckForChanges(tail)
  /\ UNCHANGED <<now, isWindows, procs, reg, inv, nops, overlap, slots, probe,
                 logs, sup>>

\* TailHandle.stop: clearInterval(intervalId)
stopTail ==
  /\ tail.on /\ ~tail.stopped
  /\ tail' = [tail EXCEPT !.stopped = TRUE]
  /\ UNCHANGED <<now, isWindows, procs, reg, inv, nops, overlap, slots, probe,
                 logs, sup>>

\* What the log holds when following begins.
FoundLogs == {<<>>, <<"a", "\n">>, <<"a">>}

InitTail ==
  /\ now = 0
  /\ isWindows = FALSE
  /\ procs = [p \in PIDs |-> NoProc]
  /\ reg = [n \in Names |-> NoRec]
  /\ inv = [i \in Invs |-> IdleInv]
  /\ nops = 0
  /\ overlap = FALSE
  /\ slots = 0
  /\ probe = NoProbe
  /\ logs = NoLogs
  /\ sup = NoSup
  /\ \E f \in FoundLogs : tail = TailOf(f)

NextTail ==
  \/ appendToLog
  \/ checkForChanges
  \/ stopTail

SpecTail == InitTail /\ [][NextTail]_vars

\* ---- validateOptions on its own, over sampled options ----
NameSamples == {"", "svc"}

OptionSamples ==
  {[NoOptions EXCEPT !.name = o.name, !.kill = o.kill, !.status = o.status,
                     !.wait = o.wait, !.logs = o.logs, !.pid = o.pid,
                     !.killAll = o.killAll, !.clean = o.clean, !.list = o.list,
                     !.help = o.help, !.tail = o.tail, !.timeout = o.timeout,
                     !.lines = o.lines, !.command = o.command] :
     o \in [name : NameSamples, kill : NameSamples, status : NameSamples,
            wait : NameSamples, logs : NameSamples, pid : NameSamples,
            killAll : BOOLEAN, clean : BOOLEAN, list : BOOLEAN, help : BOOLEAN,
            tail : BOOLEAN, timeout : {0, 30}, lines : {0, 20},
            command : BOOLEAN]}

InitValidate ==
  /\ now = 0
  /\ isWindows = FALSE
  /\ procs = [p \in PIDs |-> NoProc]
  /\ reg = [n \in Names |-> NoRec]
  /\ inv = [i \in Invs |-> IdleInv]
  /\ nops = 0
  /\ overlap = FALSE
  /\ slots = 0
  /\ \E o \in OptionSamples :
       probe = [options |-> o, called |-> FALSE, output |-> Accepted]
  /\ logs = NoLogs
  /\ sup = NoSup
  /\ tail = NoTail

validateOptions_call ==
  /\ ~probe.called
  /\ probe' = [probe EXCEPT !.called = TRUE,
                            !.output = validateOptions(probe.options)]
  /\ UNCHANGED <<now, isWindows, procs, reg, inv, nops, overlap, slots, logs,
                 sup, tail>>

NextValidate == validateOptions_call

SpecValidate == InitValidate /\ [][NextValidate]_vars

\* ---- handleLogs ----
pidPollMs == 1000

MsgNoLogs == "No logs found for process"
MsgHasExited == "has exited"
MsgNoLongerTracked == "is no longer tracked"

\* existsSync(logPath), then the static listing or the start of follow mode:
\* the PID of the record is read once, here.
handleLogs_open(i) ==
  /\ inv[i].pc = "read" /\ inv[i].op = "logs"
  /\ inv' = [inv EXCEPT ![i] =
       IF "log" \notin logs[inv[i].name] THEN Finish(i, 1, MsgNoLogs)
       ELSE IF ~inv[i].follow THEN Finish(i, 0, "lines")
       ELSE [@ EXCEPT !.pc = "follow", !.pid = readPid(inv[i].name),
                      !.wake = now + pidPollMs]]
  /\ UNCHANGED <<now, isWindows, procs, reg, nops, overlap, slots, probe, logs,
                 sup, tail>>

FollowedHasExited_current(pid, name) ==
  readPid(name) # NoPid /\ ~isProcessAlive(readPid(name))

\* pid !== null && !isProcessAlive(pid), pid being the one read at the start
FollowedHasExited(pid, name) == pid # NoPid /\ ~isProcessAlive(pid)

\* handle.stop(), where the tail of the log is modelled
AfterStop(t) == IF t.on THEN [t EXCEPT !.stopped = TRUE] ELSE t

\* One run of the setInterval callback of follow mode: on either exit it is
\* handle.stop(), clearInterval, the message, process.exit(0).
handleLogs_pidPoll(i) ==
  /\ inv[i].pc = "follow" /\ now >= inv[i].wake
  /\ inv' = [inv EXCEPT ![i] =
       IF FollowedHasExited(inv[i].pid, inv[i].name)
       THEN Finish(i, 0, MsgHasExited)
       ELSE IF readPid(inv[i].name) = NoPid
       THEN Finish(i, 0, MsgNoLongerTracked)
       ELSE [@ EXCEPT !.wake = now + pidPollMs]]
  /\ tail' = IF inv'[i].pc = "done" THEN AfterStop(tail) ELSE tail
  /\ UNCHANGED <<now, isWindows, procs, reg, nops, overlap, slots, probe, logs,
                 sup>>

\* SIGINT or SIGTERM reaches the follower: cleanup.
handleLogs_cleanup(i) ==
  /\ inv[i].pc = "follow"
  /\ inv' = [inv EXCEPT ![i] = Finish(i, 0, "interrupted")]
  /\ tail' = AfterStop(tail)
  /\ UNCHANGED <<now, isWindows, procs, reg, nops, overlap, slots, probe, logs,
                 sup>>

handleLogs ==
  \E i \in Invs :
    \/ handleLogs_open(i)
    \/ handleLogs_pidPoll(i)
    \/ handleLogs_cleanup(i)

\* Viewing the log of svc, and a daemon (re)start of svc meanwhile.
LogsArgs ==
  {[NoArgs EXCEPT !.logs = Given(Svc), !.tail = TRUE],
   [NoArgs EXCEPT !.logs = Given(Svc)],
   [RunArgs(Svc) EXCEPT !.daemon = TRUE]}

mainLogs == \E i \in Invs, args \in LogsArgs : Dispatch(i, args)

\* A daemon started earlier may be running under svc, with its record and log.
InitLogs ==
  /\ now = 0
  /\ isWindows = FALSE
  /\ \/ /\ procs = [p \in PIDs |-> NoProc]
        /\ reg = [n \in Names |-> NoRec]
        /\ logs \in {NoLogs, [NoLogs EXCEPT !["svc"] = {"log"}]}
     \/ /\ procs = [p \in PIDs |->
             IF p = 1 THEN [alive |-> TRUE, start |-> 0, inst |-> Earlier]
             ELSE NoProc]
        /\ reg = [n \in Names |->
             IF n = "svc" THEN [pid |-> 1, mtime |-> 0, by |-> Earlier]
             ELSE NoRec]
        /\ logs = [NoLogs EXCEPT !["svc"] = {"log"}]
  /\ inv = [i \in Invs |-> IdleInv]
  /\ nops = 0
  /\ overlap = FALSE
  /\ slots = 2
  /\ probe = NoProbe
  /\ sup = NoSup
  /\ tail = NoTail

NextLogs ==
  \/ Tick
  \/ ProcExit
  \/ mainLogs
  \/ terminateProcess
  \/ handleRun
  \/ handleLogs

SpecLogs == InitLogs /\ [][NextLogs]_vars

\* ---- terminateProcess against a clock of CHECK_INTERVAL_MS steps ----
\* Time passes while the caller sleeps: setTimeout(.., 100) resolves after
\* 100 ms or later; the steps between two sleeps take no time.
TickFine ==
  /\ \E i \in Invs : inv[i].pc = "wsleep" /\ now < inv[i].wake
  /\ \E d \in {CHECK_INTERVAL_MS, 3 * CHECK_INTERVAL_MS} :
       /\ now + d <= MaxClockMs
       /\ now' = now + d
  /\ UNCHANGED <<isWindows, procs, reg, inv, nops, overlap, slots, probe, logs,
                 sup, tail>>

\* terminateProcess(pid, gracePeriodMs) is entered for a running process, with
\* --grace 1 or without --grace.
InitTerm ==
  /\ now = 0
  /\ isWindows \in BOOLEAN
  /\ procs = [p \in PIDs |->
       IF p = 1 THEN [alive |-> TRUE, start |-> 0, inst |-> Earlier] ELSE NoProc]
  /\ reg = [n \in Names |-> NoRec]
  /\ \E g \in GraceOpts :
       inv = [i \in Invs |->
         IF i = 1 THEN [IdleInv EXCEPT !.pc = "tcheck", !.pid = 1, !.grace = g]
         ELSE IdleInv]
  /\ nops = 0
  /\ overlap = FALSE
  /\ slots = 0
  /\ probe = NoProbe
  /\ logs = NoLogs
  /\ sup = NoSup
  /\ tail = NoTail

NextTerm ==
  \/ TickFine
  \/ ProcExit
  \/ terminateProcess

SpecTerm == InitTerm /\ [][NextTerm]_vars

\* The clock goes on and the caller's next step is taken; the process is
\* free never to exit.
SpecTermFair ==
  /\ SpecTerm
  /\ WF_vars(TickFine)
  /\ WF_vars(terminateProcess)

\* ---- handlePid ----
MsgNotRunning == "is not running"

handlePid_read(i) ==
  /\ inv[i].pc = "read" /\ inv[i].op = "pid"
  /\ LET pid == readPid(inv[i].name)
     IN inv' = [inv EXCEPT ![i] =
          IF pid = NoPid
          THEN Finish(i, 1, "No process found")
          ELSE [@ EXCEPT !.pc = "verify", !.pid = pid,
                         !.target = reg[inv[i].name].by]]
  /\ UNCHANGED <<now, isWindows, procs, reg, nops, overlap, slots, probe, logs,
                 sup, tail>>

\* getPidFileMtime, await isSameProcessInstance, then the PID or the message.
handlePid_verify(i) ==
  /\ inv[i].pc = "verify" /\ inv[i].op = "pid"
  /\ \E st \in getProcessStartTime(inv[i].pid) :
       LET v == Verify(i, st)
       IN inv' = [inv EXCEPT ![i] =
            IF v.same
            THEN [v EXCEPT !.pc = "done", !.exit = 0, !.msg = "pid"]
            ELSE [v EXCEPT !.pc = "done", !.exit = 1, !.msg = MsgNotRunning]]
  /\ UNCHANGED <<now, isWindows, procs, reg, nops, overlap, slots, probe, logs,
                 sup, tail>>

handlePid ==
  \E i \in Invs :
    \/ handlePid_read(i)
    \/ handlePid_verify(i)

\* ---- the commands that name one process, over two tracked names ----
FrameArgs ==
  {[RunArgs(Svc) EXCEPT !.daemon = TRUE],
   RunArgs(App),
   [NoArgs EXCEPT !.kill = Given(Svc)],
   [NoArgs EXCEPT !.kill = Given(App)],
   [NoArgs EXCEPT !.status = Given(Svc)],
   [NoArgs EXCEPT !.pid = Given(App)],
   [NoArgs EXCEPT !.wait = Given(Svc), !.timeout = Numeric(One, 1)],
   [NoArgs EXCEPT !.logs = Given(App), !.tail = TRUE]}

mainFrame == \E i \in Invs, args \in FrameArgs : Dispatch(i, args)

\* Both names are tracked, each with a daemon's log; the process of app may
\* have exited already.
InitFrame ==
  /\ now = 0
  /\ isWindows = FALSE
  /\ \E appAlive \in BOOLEAN :
       procs = [p \in PIDs |->
         IF p = 1 \/ appAlive
         THEN [alive |-> TRUE, start |-> 0, inst |-> Earlier - p]
         ELSE NoProc]
  /\ reg = [n \in Names |->
       [pid |-> IF n = "svc" THEN 1 ELSE 2, mtime |-> 0,
        by |-> Earlier - (IF n = "svc" THEN 1 ELSE 2)]]
  /\ logs = [n \in Names |-> {"log"}]
  /\ inv = [i \in Invs |-> IdleInv]
  /\ nops = 0
  /\ overlap = FALSE
  /\ slots = 2
  /\ probe = NoProbe
  /\ sup = NoSup
  /\ tail = NoTail

NextFrame ==
  \/ Tick
  \/ ProcExit
  \/ mainFrame
  \/ terminateProcess
  \/ handleKill
  \/ handleRun
  \/ handleStatus
  \/ handlePid
  \/ handleWait
  \/ handleLogs

SpecFrame == InitFrame /\ [][NextFrame]_vars

\* ---- invocations racing on one tracked name ----
RaceArgs ==
  {RunArgs(Svc),
   [NoArgs EXCEPT !.kill = Given(Svc), !.grace = Numeric(One, 1)],
   [NoArgs EXCEPT !.killAll = TRUE, !.grace = Numeric(One, 1)],
   [NoArgs EXCEPT !.status = Given(Svc)],
   [NoArgs EXCEPT !.pid = Given(Svc)]}

mainRace == \E i \in Invs, args \in RaceArgs : Dispatch(i, args)

\* svc was started earlier and is running; two invocations may overlap.
InitRace ==
  /\ now = 0
  /\ isWindows = FALSE
  /\ procs = [p \in PIDs |->
       IF p = 1 THEN [alive |-> TRUE, start |-> 0, inst |-> Earlier]
       ELSE NoProc]
  /\ reg = [n \in Names |->
       IF n = "svc" THEN [pid |-> 1, mtime |-> 0, by |-> Earlier] ELSE NoRec]
  /\ logs = NoLogs
  /\ inv = [i \in Invs |-> IdleInv]
  /\ nops = 0
  /\ overlap = FALSE
  /\ slots = 2
  /\ probe = NoProbe
  /\ sup = NoSup
  /\ tail = NoTail

NextRace ==
  \/ Tick
  \/ ProcExit
  \/ mainRace
  \/ terminateProcess
  \/ handleKill
  \/ handleRun
  \/ handleKillAll
  \/ handleStatus
  \/ handlePid

SpecRace == InitRace /\ [][NextRace]_vars

\* ---- handleList ----
\* info.exists && isProcessAlive(info.pid) ? 'running' : 'stopped'
ListedRunning(name) == readPid(name) # NoPid /\ isProcessAlive(readPid(name))

\* listPids, then one line per PID file; always 0.
handleList ==
  \E i \in Invs :
    /\ inv[i].pc = "list" /\ inv[i].op = "list"
    /\ inv' = [inv EXCEPT ![i] =
         IF listPids = <<>> THEN Finish(i, 0, "No tracked processes")
         ELSE [Finish(i, 0, "Tracked processes:") EXCEPT
                 !.listed = {n \in Names : reg[n].mtime # NoTime /\ ListedRunning(n)}]]
    /\ UNCHANGED <<now, isWindows, procs, reg, nops, overlap, slots, probe, logs,
                   sup, tail>>

ListArgs ==
  {RunArgs(Svc),
   [NoArgs EXCEPT !.status = Given(Svc)],
   [NoArgs EXCEPT !.list = TRUE]}

mainList == \E i \in Invs, args \in ListArgs : Dispatch(i, args)

NextList ==
  \/ Tick
  \/ ProcExit
  \/ ForeignSpawn
  \/ mainList
  \/ terminateProcess
  \/ handleRun
  \/ handleStatus
  \/ handleList

SpecList == InitOps /\ [][NextList]_vars

\* ---- follow mode: the tail poll and the PID poll in one process ----
pollIntervalMs == 500

\* handleLogs has entered follow mode for svc at time 0: the log is there, the
\* tail has begun at its end, the PID of the record was read, both intervals
\* are set. The daemon that writes the log runs.
InitFollow ==
  /\ now = 0
  /\ isWindows = FALSE
  /\ procs = [p \in PIDs |->
       IF p = 1 THEN [alive |-> TRUE, start |-> 0, inst |-> Earlier]
       ELSE NoProc]
  /\ reg = [n \in Names |->
       IF n = "svc" THEN [pid |-> 1, mtime |-> 0, by |-> Earlier] ELSE NoRec]
  /\ inv = [i \in Invs |->
       IF i = 1
       THEN [IdleInv EXCEPT !.pc = "follow", !.op = "logs", !.seq = 1,
                            !.follow = TRUE, !.pid = 1,
                            !.wake = pidPollMs]
       ELSE IdleInv]
  /\ nops = 1
  /\ overlap = FALSE
  /\ slots = 0
  /\ probe = NoProbe
  /\ logs = [NoLogs EXCEPT !["svc"] = {"log"}]
  /\ sup = NoSup
  /\ \E f \in FoundLogs : tail = [TailOf(f) EXCEPT !.wake = pollIntervalMs]

\* Time passes while the follower has nothing to run: an interval that is due
\* fires before the clock moves on.
followSleeps ==
  /\ inv[1].pc = "follow"
  /\ now < tail.wake /\ now < inv[1].wake
  /\ now + pollIntervalMs <= MaxClockMs
  /\ now' = now + pollIntervalMs
  /\ UNCHANGED <<isWindows, procs, reg, inv, nops, overlap, slots, probe, logs,
                 sup, tail>>

\* The daemon writes to its log, as long as it runs.
daemonWrites ==
  /\ procs[1].alive
  /\ appendToLog

\* The interval of tailLogFile fires. An interval is set again from the time
\* its callback ran, so where both intervals are due either may run first.
tailPoll ==
  /\ inv[1].pc = "follow"
  /\ tail.on /\ ~tail.stopped
  /\ now >= tail.wake
  /\ tail' = [AfterCheckForChanges(tail) EXCEPT !.wake = now + pollIntervalMs]
  /\ UNCHANGED <<now, isWindows, procs, reg, inv, nops, overlap, slots, probe,
                 logs, sup>>

NextFollow ==
  \/ followSleeps
  \/ ProcExit
  \/ daemonWrites
  \/ tailPoll
  \/ handleLogs_pidPoll(1)
  \/ handleLogs_cleanup(1)

SpecFollow == InitFollow /\ [][NextFollow]_vars

\* ---- tailLogFile while the followed file shrinks or is replaced ----
MaxShrinks == 1

\* The size limit of rotateLogIfNeeded, on the scale of the files followed here.
ShrinkMaxSize == 1

\* The writer of the log appends to the file the path names.
writerAppends ==
  /\ ~tail.gone
  /\ appendToLog

\* The file is cut to no bytes while it is followed.
truncateLog ==
  /\ tail.on /\ ~tail.gone
  /\ tail.file # <<>>
  /\ tail.shrinks < MaxShrinks
  /\ tail' = [tail EXCEPT !.file = <<>>, !.base = 0, !.shrinks = @ + 1,
                          !.mark = Len(tail.out)]
  /\ UNCHANGED <<now, isWindows, procs, reg, inv, nops, overlap, slots, probe,
                 logs, sup>>

\* A daemon start of the same name rotates the log: renameSync(logPath,
\* backupPath) when the size is over the limit.
rotateLog ==
  /\ tail.on /\ ~tail.gone
  /\ ~KeepsLog(Len(tail.file), ShrinkMaxSize)
  /\ tail.shrinks < MaxShrinks
  /\ tail' = [tail EXCEPT !.gone = TRUE, !.file = <<>>, !.base = 0,
                          !.shrinks = @ + 1, !.mark = Len(tail.out)]
  /\ UNCHANGED <<now, isWindows, procs, reg, inv, nops, overlap, slots, probe,
                 logs, sup>>

\* ... and spawnCommandDaemon opens a fresh log: openSync(logFilePath, 'a')
createLog ==
  /\ tail.on /\ tail.gone
  /\ tail' = [tail EXCEPT !.gone = FALSE]
  /\ UNCHANGED <<now, isWindows, procs, reg, inv, nops, overlap, slots, probe,
                 logs, sup>>

NextShrink ==
  \/ writerAppends
  \/ checkForChanges
  \/ truncateLog
  \/ rotateLog
  \/ createLog

SpecShrink == InitTail /\ [][NextShrink]_vars

\* ======================= properties =======================
NoAliveInst(k) == \A p \in PIDs : ~(procs[p].alive /\ procs[p].inst = k)

MsgDifferent == "belongs to a different process, not killing"

\* A start without --ensure that has returned 0 with its record written.
StartReturned(i) ==
  /\ inv[i].pc = "done" /\ inv[i].op = "start" /\ ~inv[i].ensure
  /\ inv[i].wrote /\ ~overlap

\* C1 (as claimed): after non-overlapping starts of one name, once a start
\* has returned with its record written, the process of the previous start is
\* no longer alive and the record holds the newest PID.
C1_PreviousDeadNewestTracked ==
  \A i \in Invs :
    (StartReturned(i) /\ inv[i].target # 0) =>
      /\ NoAliveInst(inv[i].target)
      /\ reg[inv[i].name].pid = inv[i].spawned

\* C1 (amended): the record holds the PID the returning start spawned, and the
\* previous start's process is no longer alive whenever it was found dead at
\* verification or its termination ended Dead; after a Stale verification or
\* a StillAlive termination it may stay alive.
C1_PreviousDeadWhenTerminated ==
  \A i \in Invs :
    StartReturned(i) =>
      /\ reg[inv[i].name].pid = inv[i].spawned
      /\ reg[inv[i].name].by = inv[i].seq
      /\ (inv[i].target # 0 /\ (inv[i].term = "Dead" \/ inv[i].verdict = "Dead"))
           => NoAliveInst(inv[i].target)

C1_Witness ==
  \E i \in Invs :
    /\ StartReturned(i) /\ inv[i].target # 0
    /\ inv[i].term = "Dead" /\ inv[i].hits = {inv[i].target}
    /\ procs[inv[i].spawned].alive /\ procs[inv[i].spawned].inst = inv[i].seq

\* C2: a termination request is only ever delivered to the process the tool
\* spawned and recorded in the record the invocation read, never to another
\* process holding the same PID.
C2_NeverSignalsAnotherProcess ==
  \A i \in Invs : inv[i].hits \subseteq {inv[i].target}

\* C3: kill on a record whose PID is alive but not verifiable as the recorded
\* process (Stale) sends no request, deletes the record, exits 0, and reports
\* the PID as belonging to a different process while that PID is alive.
C3_State ==
  \A i \in Invs :
    (inv[i].op = "kill" /\ inv[i].verdict = "Stale") =>
      /\ ~inv[i].same
      /\ inv[i].hits = {} /\ inv[i].req1 = "none" /\ inv[i].req2 = "none"
      /\ inv[i].pc \in {"stale", "done"}
      /\ inv[i].pc = "done" =>
           /\ inv[i].exit = 0 /\ inv[i].deleted
           /\ reg[inv[i].name] = NoRec

C3_Report ==
  \A i \in Invs :
    (/\ inv[i].op = "kill" /\ inv[i].verdict = "Stale"
     /\ inv[i].pc # "done" /\ inv'[i].pc = "done"
     /\ isProcessAlive(inv[i].pid))
      => inv'[i].msg = MsgDifferent

C3_StaleNeverKilled == [][C3_State' /\ C3_Report]_vars

C3_Witness ==
  \E i \in Invs :
    /\ inv[i].op = "kill" /\ inv[i].verdict = "Stale" /\ inv[i].pc = "done"
    /\ inv[i].msg = MsgDifferent
    /\ procs[inv[i].pid].alive /\ procs[inv[i].pid].inst = Foreign
    /\ procs[inv[i].pid].start > START_TIME_TOLERANCE_MS

\* C4: start, with or without --ensure, on a record that does not verify
\* (Stale or Dead) sends no request; it deletes the old record, spawns, and
\* writes the new PID (or exits 1 when the OS refuses the spawn or the write).
C4_UnverifiedNeverKilledByStart ==
  \A i \in Invs :
    (inv[i].op = "start" /\ inv[i].verdict \in {"Stale", "Dead"}) =>
      /\ ~inv[i].same
      /\ inv[i].hits = {} /\ inv[i].req1 = "none" /\ inv[i].req2 = "none"
      /\ inv[i].term = "none"
      /\ inv[i].pc \in {"stale", "spawn", "write", "done"}
      /\ inv[i].pc # "stale" => inv[i].deleted
      /\ inv[i].pc = "done" =>
           \/ /\ inv[i].exit = 0 /\ inv[i].wrote /\ inv[i].spawned # NoPid
              /\ reg[inv[i].name].pid = inv[i].spawned
              /\ reg[inv[i].name].by = inv[i].seq
           \/ /\ inv[i].exit = 1 /\ ~inv[i].wrote
              /\ inv[i].msg = "Failed to start process"
              /\ reg[inv[i].name] = NoRec

C4_Witness ==
  \E i \in Invs :
    /\ inv[i].op = "start" /\ inv[i].verdict = "Stale" /\ inv[i].pc = "done"
    /\ inv[i].wrote /\ inv[i].spawned # inv[i].pid
    /\ procs[inv[i].pid].alive /\ procs[inv[i].pid].inst = Foreign
    /\ procs[inv[i].spawned].alive /\ procs[inv[i].spawned].inst = inv[i].seq

\* C5 (as claimed): the forceful request is not delivered before graceMs has
\* elapsed since the first request, and on every platform the first request
\* is not itself forceful.
C5_GraceBeforeForceEveryPlatform ==
  \A i \in Invs :
    /\ inv[i].req1 # "forceful"
    /\ (inv[i].phase = "force" /\ inv[i].req2 # "none") =>
         inv[i].waited >= (IF inv[i].grace = 0 THEN 5000 ELSE inv[i].grace * 1000)

\* C5 (amended): forceKillProcess is not called before graceMs has elapsed
\* since killProcess made its request; that first request is SIGTERM on Unix
\* and the forceful taskkill /T /F on Windows.
C5_GraceBeforeForce ==
  \A i \in Invs :
    /\ inv[i].req1 = "forceful" => isWindows
    /\ (inv[i].req1 # "none" /\ ~isWindows) => inv[i].req1 = "graceful"
    /\ (inv[i].phase = "force" /\ inv[i].req2 # "none") =>
         inv[i].waited >= (IF inv[i].grace = 0 THEN 5000 ELSE inv[i].grace * 1000)

C5_Witness ==
  \E i \in Invs :
    /\ ~isWindows /\ inv[i].req1 = "graceful"
    /\ inv[i].phase = "force" /\ inv[i].req2 = "forceful"
    /\ inv[i].grace = 0 /\ inv[i].waited >= 5000

\* C6: for a valid PID terminate returns Dead only on a liveness check that
\* saw the PID not alive, and StillAlive exactly when the PID is alive at the
\* final check, made once the grace window and then the 2000 ms force window
\* have elapsed; a PID seen gone by a check in the force window gives Dead.
C6_Return(i) ==
  (inv[i].pc \in {"tcheck", "wloop"} /\ inv'[i].pc = "after"
   /\ isValidPid(inv[i].pid)) =>
    /\ inv'[i].term = "Dead" => ~isProcessAlive(inv[i].pid)
    /\ inv'[i].term = "StillAlive" =>
         /\ isProcessAlive(inv[i].pid)
         /\ inv[i].phase = "force"
         /\ now - inv[i].t0 >= 2000
         /\ inv[i].waited >= inv[i].graceMs

C6_ForceWindow(i) ==
  (inv[i].pc = "wloop" /\ inv[i].phase = "force" /\ inv'[i] # inv[i]) =>
    /\ ~isProcessAlive(inv[i].pid) => (inv'[i].pc = "after" /\ inv'[i].term = "Dead")
    /\ (isProcessAlive(inv[i].pid) /\ now - inv[i].t0 >= 2000) =>
         (inv'[i].pc = "after" /\ inv'[i].term = "StillAlive")
    /\ (isProcessAlive(inv[i].pid) /\ now - inv[i].t0 < 2000) =>
         inv'[i].pc = "wsleep"

C6_TerminateOutcome == [][\A i \in Invs : C6_Return(i) /\ C6_ForceWindow(i)]_vars

C6_Witness ==
  \E i \in Invs :
    /\ inv[i].pc = "after" /\ inv[i].term = "Dead"
    /\ inv[i].req2 = "forceful" /\ ~isProcessAlive(inv[i].pid)

\* C7: kill on a Verified record whose termination ends Dead exits 0 with the
\* record deleted and the recorded process not alive; the record of a
\* Verified PID is deleted only after termination has ended Dead.
C7_VerifiedKillClearsRecord ==
  \A i \in Invs :
    (inv[i].op = "kill" /\ inv[i].verdict = "Verified") =>
      /\ inv[i].same
      /\ inv[i].deleted => inv[i].term = "Dead"
      /\ (inv[i].pc = "done" /\ inv[i].term = "Dead") =>
           /\ inv[i].exit = 0 /\ inv[i].deleted
           /\ reg[inv[i].name] = NoRec
           /\ NoAliveInst(inv[i].target)

C7_Witness ==
  \E i \in Invs :
    /\ inv[i].op = "kill" /\ inv[i].verdict = "Verified" /\ inv[i].pc = "done"
    /\ inv[i].term = "Dead" /\ inv[i].hits = {inv[i].target}
    /\ inv[i].exit = 0 /\ reg[inv[i].name] = NoRec

\* C8: kill on a Verified record whose termination ends StillAlive exits 1
\* and leaves the record in place with the same PID, so the next kill of the
\* name reads that PID again.
C8_StillAliveKeepsRecord ==
  \A i \in Invs :
    (inv[i].op = "kill" /\ inv[i].verdict = "Verified" /\ inv[i].pc = "done"
     /\ inv[i].term = "StillAlive") =>
      /\ inv[i].exit = 1 /\ ~inv[i].deleted
      /\ readPid(inv[i].name) = inv[i].pid
      /\ reg[inv[i].name].by = inv[i].target

C8_Witness ==
  \E i \in Invs :
    /\ inv[i].op = "kill" /\ inv[i].verdict = "Verified" /\ inv[i].pc = "done"
    /\ inv[i].term = "StillAlive" /\ inv[i].exit = 1
    /\ inv[i].req1 # "none" /\ inv[i].req2 = "forceful"
    /\ procs[inv[i].pid].alive /\ readPid(inv[i].name) = inv[i].pid

\* C9: verification answers true exactly when the start time of the PID is
\* known, the record time is known, and they differ by at most 5000 ms
\* (5000 verifies, 5001 does not); a PID that is invalid or not running never
\* verifies.
C9_VerifiedIffWithinTolerance ==
  probe.called =>
    /\ probe.result <=>
         (/\ probe.st # NoTime /\ probe.mtime # NoTime
          /\ Abs(probe.st - probe.mtime) <= 5000)
    /\ (probe.pid < 1 \/ probe.pid > 4194304 \/ probe.pid \notin PIDs
        \/ ~procs[probe.pid].alive) => ~probe.result

C9_Witness ==
  /\ probe.called /\ probe.result
  /\ Abs(probe.st - probe.mtime) = 5000

\* C10: start --ensure on a Verified record returns "already running" with
\* exit 0, sends no request, spawns nothing and leaves the record as it was.
C10_State ==
  \A i \in Invs :
    (inv[i].op = "start" /\ inv[i].ensure /\ inv[i].verdict = "Verified") =>
      /\ inv[i].pc = "done" /\ inv[i].exit = 0
      /\ inv[i].msg = "already running, skipping"
      /\ inv[i].hits = {} /\ inv[i].req1 = "none" /\ inv[i].req2 = "none"
      /\ inv[i].spawned = NoPid /\ ~inv[i].deleted /\ ~inv[i].wrote
      /\ reg[inv[i].name].pid = inv[i].pid
      /\ reg[inv[i].name].by = inv[i].target

C10_Frame ==
  \A i \in Invs :
    (inv[i].op = "start" /\ inv[i].ensure /\ inv'[i] # inv[i]
     /\ inv'[i].verdict = "Verified") => (reg' = reg /\ procs' = procs)

C10_EnsureIsNoOp == [][C10_State' /\ C10_Frame]_vars

C10_Witness ==
  \E i \in Invs :
    /\ inv[i].op = "start" /\ inv[i].ensure /\ inv[i].verdict = "Verified"
    /\ inv[i].pc = "done" /\ inv[i].exit = 0
    /\ reg[inv[i].name].pid = inv[i].pid
    /\ procs[inv[i].pid].alive /\ procs[inv[i].pid].inst = inv[i].target

\* C11: for a PID outside 1..4194304 (negative, zero, too large) isProcessAlive,
\* killProcess and forceKillProcess return false and getProcessStartTime
\* returns null without any OS call, and terminateProcess returns false at its
\* validation, before any liveness check, request or wait.
C11_Called ==
  (probe.called /\ (probe.pid < 1 \/ probe.pid > 4194304)) =>
    /\ probe.calls = {}
    /\ probe.ret = (IF probe.fn = "getProcessStartTime" THEN "null" ELSE "false")

C11_Terminate ==
  \A i \in Invs :
    (inv[i].pid < 1 \/ inv[i].pid > 4194304) =>
      /\ inv[i].pc \in {"idle", "tcheck", "after"}
      /\ inv[i].hits = {} /\ inv[i].req1 = "none" /\ inv[i].req2 = "none"
      /\ inv[i].pc = "after" => inv[i].term = "StillAlive"

MsgNothingToKill == "No process found"

C12_Step ==
  \A i \in Invs :
    (inv[i].op = "kill" /\ inv[i].pc = "read" /\ inv'[i] # inv[i]
     /\ reg[inv[i].name].pid = NoPid) =>
      /\ inv'[i].pc = "done" /\ inv'[i].exit = 0
      /\ inv'[i].msg = MsgNothingToKill
      /\ inv'[i].hits = {} /\ inv'[i].req1 = "none" /\ inv'[i].req2 = "none"
      /\ reg' = reg /\ logs' = logs /\ procs' = procs

C12_Twice ==
  \A i \in Invs :
    (/\ inv[i].op = "kill" /\ inv[i].pc = "done"
     /\ inv[i].prev.op = "kill" /\ inv[i].prev.name = inv[i].name
     /\ inv[i].prev.msg = MsgNothingToKill) =>
      /\ inv[i].exit = 0 /\ inv[i].prev.exit = 0
      /\ inv[i].msg = MsgNothingToKill
      /\ reg[inv[i].name].pid = NoPid

C12_KillNothingIsNoOp == [][C12_Step /\ C12_Twice']_vars

C12_Witness ==
  \E i \in Invs :
    /\ inv[i].op = "kill" /\ inv[i].pc = "done" /\ inv[i].seq = 2
    /\ inv[i].msg = MsgNothingToKill /\ inv[i].exit = 0
    /\ inv[i].prev.op = "kill" /\ inv[i].prev.msg = MsgNothingToKill
    /\ inv[i].prev.exit = 0

\* C13: when the OS creates no process for a start (foreground or daemon),
\* the start returns 1 without writing a record: the registry then holds no
\* PID for the name and no process of this start exists.
C13_FailedSpawnWritesNoRecord ==
  \A i \in Invs :
    (/\ inv[i].op = "start" /\ inv[i].pc = "done" /\ inv[i].spawned = NoPid
     /\ inv[i].msg # "already running, skipping") =>
      /\ inv[i].exit = 1 /\ inv[i].msg = "Failed to start process"
      /\ ~inv[i].wrote
      /\ reg[inv[i].name].pid = NoPid
      /\ NoAliveInst(inv[i].seq)

C13_Witness ==
  \E i \in Invs :
    /\ inv[i].op = "start" /\ inv[i].pc = "done" /\ inv[i].spawned = NoPid
    /\ inv[i].daemon /\ inv[i].exit = 1 /\ inv[i].deleted
    /\ "log" \in logs[inv[i].name]
    /\ reg[inv[i].name] = NoRec

\* C14: no step of status writes or deletes a record or a log file, sends a
\* request or spawns a process, whatever the record (none, Verified, Stale,
\* Dead); a Stale record is still there when status has returned.
C14_Step ==
  \A i \in Invs :
    (inv[i].op = "status" /\ inv'[i] # inv[i] /\ inv'[i].op = "status") =>
      /\ reg' = reg /\ logs' = logs /\ procs' = procs
      /\ inv'[i].hits = {} /\ inv'[i].req1 = "none" /\ inv'[i].req2 = "none"
      /\ inv'[i].spawned = NoPid /\ ~inv'[i].deleted /\ ~inv'[i].wrote

C14_StaleKept ==
  \A i \in Invs :
    (inv[i].op = "status" /\ inv[i].pc = "done" /\ inv[i].verdict = "Stale") =>
      /\ reg[inv[i].name].pid = inv[i].pid
      /\ reg[inv[i].name].by = inv[i].target

C14_StatusHasNoSideEffect == [][C14_Step /\ C14_StaleKept']_vars

C14_Witness ==
  \E i \in Invs :
    /\ inv[i].op = "status" /\ inv[i].pc = "done" /\ inv[i].verdict = "Stale"
    /\ reg[inv[i].name].pid = inv[i].pid
    /\ procs[inv[i].pid].alive /\ procs[inv[i].pid].start > 5000
    /\ inv[i].msg = MsgStoppedDifferent

\* C15: status exits 0 ("running") exactly when a record exists and verifies
\* as Verified; it exits 1 for a name with no record, for a recorded PID that
\* is dead, and for a recorded PID that is alive but Stale.
C15_RunningIffVerified ==
  \A i \in Invs :
    (inv[i].op = "status" /\ inv[i].pc = "done") =>
      /\ inv[i].exit \in {0, 1}
      /\ inv[i].exit = 0 <=> (inv[i].pid # NoPid /\ inv[i].verdict = "Verified")
      /\ inv[i].exit = 0 <=> inv[i].msg = "running"
      /\ inv[i].pid = NoPid => inv[i].msg = "not tracked"

C15_Witness ==
  \E i \in Invs :
    /\ inv[i].op = "status" /\ inv[i].pc = "done" /\ inv[i].exit = 0
    /\ inv[i].verdict = "Verified" /\ reg[inv[i].name].pid = inv[i].pid
    /\ procs[inv[i].pid].alive /\ procs[inv[i].pid].inst = inv[i].target

\* C16: each turn of clean's loop deletes the record and the log files of the
\* name it looks at when the record does not verify (Stale, Dead, or a file
\* that does not parse) and leaves both alone when it is Verified; it touches
\* no other name, sends no request, and clean returns 0.
C16_Item ==
  \A i \in Invs :
    (inv[i].op = "clean" /\ inv[i].pc = "verify" /\ inv'[i] # inv[i]) =>
      LET name == inv[i].name
          gone == inv[i].pid <= 0 \/ inv'[i].verdict # "Verified"
      IN /\ gone => (/\ reg'[name] = NoRec /\ logs'[name] = {}
                     /\ name \in inv'[i].cleaned /\ name \notin inv'[i].kept)
         /\ ~gone => (/\ reg'[name] = reg[name] /\ logs'[name] = logs[name]
                      /\ name \in inv'[i].kept /\ name \notin inv'[i].cleaned)
         /\ \A m \in Names \ {name} : reg'[m] = reg[m] /\ logs'[m] = logs[m]
         /\ procs' = procs
         /\ inv'[i].hits = {} /\ inv'[i].req1 = "none" /\ inv'[i].req2 = "none"

C16_Returned ==
  \A i \in Invs :
    (inv[i].op = "clean" /\ inv[i].pc = "done") =>
      /\ inv[i].exit = 0
      /\ \A n \in Names : reg[n].mtime # NoTime <=> n \in inv[i].kept
      /\ \A n \in inv[i].cleaned : reg[n] = NoRec /\ logs[n] = {}

C16_CleanRemovesUnverifiedOnly == [][C16_Item /\ C16_Returned']_vars

C16_Witness ==
  \E i \in Invs :
    /\ inv[i].op = "clean" /\ inv[i].pc = "done"
    /\ inv[i].cleaned = {"svc"} /\ inv[i].kept = {"app"}
    /\ reg["svc"] = NoRec /\ reg["app"].pid # NoPid
    /\ procs[reg["app"].pid].alive /\ procs[reg["app"].pid].inst = reg["app"].by
    /\ "log" \in logs["app"]

\* C17: killAll treats every record it enumerated as kill does: a record that
\* does not verify is deleted without any request, a Verified one is
\* terminated and deleted when termination ends Dead and left in place when
\* it ends StillAlive; the loop goes on after a failure, and killAll returns
\* 0 exactly when no enumerated record is left.
C17_Item ==
  \A i \in Invs :
    (inv[i].op = "killAll" /\ inv[i].pc \in {"verify", "after"}
     /\ inv'[i] # inv[i] /\ inv'[i].pc # "tcheck") =>
      LET name == inv[i].name
      IN /\ inv[i].pc = "verify" =>
              /\ inv'[i].verdict # "Verified" \/ inv[i].pid <= 0
              /\ inv[i].hits = {} /\ reg'[name] = NoRec
              /\ inv'[i].failed = inv[i].failed
         /\ (inv[i].pc = "after" /\ inv[i].term = "Dead") =>
              (reg'[name] = NoRec /\ inv'[i].failed = inv[i].failed)
         /\ (inv[i].pc = "after" /\ inv[i].term = "StillAlive") =>
              (reg'[name] = reg[name] /\ inv'[i].failed)
         /\ \A m \in Names \ {name} : reg'[m] = reg[m]
         /\ inv'[i].pc = (IF Len(inv[i].todo) > 1 THEN "verify" ELSE "done")
         /\ Len(inv[i].todo) > 1 =>
              (inv'[i].name = inv[i].todo[2].name /\ inv'[i].pid = inv[i].todo[2].pid)

C17_Verified ==
  \A i \in Invs :
    (inv[i].op = "killAll" /\ inv[i].pc = "verify" /\ inv'[i].pc = "tcheck") =>
      (inv'[i].verdict = "Verified" /\ reg' = reg)

C17_Returned ==
  \A i \in Invs :
    (inv[i].op = "killAll" /\ inv[i].pc = "done") =>
      /\ inv[i].exit \in {0, 1}
      /\ inv[i].exit = 0 <=> \A n \in Names : reg[n].mtime = NoTime
      /\ inv[i].exit = 1 <=> inv[i].failed

C17_KillAllPerRecord == [][C17_Item /\ C17_Verified /\ C17_Returned']_vars

C17_Witness ==
  \E i \in Invs :
    /\ inv[i].op = "killAll" /\ inv[i].pc = "done" /\ inv[i].exit = 1
    /\ reg["app"].pid # NoPid /\ procs[reg["app"].pid].alive
    /\ procs[reg["app"].pid].inst = reg["app"].by
    /\ reg["svc"] = NoRec /\ inv[i].name = "svc" /\ inv[i].deleted

\* C18 (as claimed): wait fails at once when there is no record; with a
\* record it succeeds (exit 0) once the recorded PID is not alive, and its
\* only failure is the timeout.
C18_RecordedPidGoneIsSuccess ==
  \A i \in Invs :
    (inv[i].op = "wait" /\ inv[i].pc = "done") =>
      /\ inv[i].pid = NoPid => inv[i].exit = 1
      /\ (inv[i].pid # NoPid /\ inv[i].exit = 1) =>
           inv[i].msg = "Timeout waiting for process"

\* C18 (amended): wait fails at once (exit 1) when there is no record and
\* also when the recorded PID is not alive at its first check; otherwise it
\* polls liveness only, returns 0 at the first poll that finds the PID not
\* alive, returns 1 at a poll that finds it alive with timeoutMs elapsed, and
\* without a timeout returns only when the PID is not alive. No step of wait
\* verifies identity or changes the registry, the log files or a process.
C18_Read ==
  \A i \in Invs :
    (inv[i].op = "wait" /\ inv[i].pc = "read" /\ inv'[i] # inv[i]) =>
      LET pid == reg[inv[i].name].pid
          alive == pid \in PIDs /\ procs[pid].alive
      IN /\ pid = NoPid =>
              (inv'[i].pc = "done" /\ inv'[i].exit = 1
               /\ inv'[i].msg = "No process found")
         /\ (pid # NoPid /\ ~alive) =>
              (inv'[i].pc = "done" /\ inv'[i].exit = 1
               /\ inv'[i].msg = "is not running")
         /\ (pid # NoPid /\ alive) => (inv'[i].pc = "poll" /\ inv'[i].pid = pid)

C18_Poll ==
  \A i \in Invs :
    (inv[i].op = "wait" /\ inv[i].pc = "poll" /\ inv'[i] # inv[i]) =>
      LET alive == procs[inv[i].pid].alive
          elapsed == now - inv[i].t0
          over == inv[i].timeout # 0 /\ elapsed >= inv[i].timeout * 1000
      IN /\ ~alive => (inv'[i].pc = "done" /\ inv'[i].exit = 0)
         /\ (alive /\ over) =>
              (inv'[i].pc = "done" /\ inv'[i].exit = 1
               /\ inv'[i].msg = "Timeout waiting for process")
         /\ (alive /\ ~over) => inv'[i].pc = "sleep"

C18_Frame ==
  \A i \in Invs :
    (inv[i].op = "wait" /\ inv'[i] # inv[i] /\ inv'[i].op = "wait") =>
      /\ reg' = reg /\ logs' = logs /\ procs' = procs
      /\ inv'[i].verdict = "none" /\ inv'[i].hits = {}

C18_WaitPollsLiveness == [][C18_Read /\ C18_Poll /\ C18_Frame]_vars

C18_Witness ==
  \E i \in Invs :
    /\ inv[i].op = "wait" /\ inv[i].pc = "done" /\ inv[i].exit = 0
    /\ inv[i].msg = "has exited" /\ now > 0
    /\ reg[inv[i].name].pid = inv[i].pid /\ ~procs[inv[i].pid].alive

\* C19: two starts of one name that overlap and both find no record both
\* spawn and both write; each write replaces whatever record is there, so the
\* record ends as the later writer's, neither start sends a request, and the
\* earlier writer's process can stay alive with no record of its own.
C19_Write ==
  \A i \in Invs :
    (inv[i].pc = "write" /\ inv'[i].pc = "done" /\ inv'[i].wrote) =>
      /\ reg'[inv[i].name].pid = inv[i].spawned
      /\ reg'[inv[i].name].by = inv[i].seq
      /\ reg'[inv[i].name].mtime = now

C19_BothWrote(i, j) ==
  /\ i # j /\ overlap
  /\ inv[i].op = "start" /\ inv[j].op = "start" /\ inv[i].name = inv[j].name
  /\ inv[i].pc = "done" /\ inv[j].pc = "done"
  /\ inv[i].pid = NoPid /\ inv[j].pid = NoPid
  /\ inv[i].wrote /\ inv[j].wrote

C19_Race ==
  \A i, j \in Invs :
    C19_BothWrote(i, j) =>
      /\ reg[inv[i].name].by \in {inv[i].seq, inv[j].seq}
      /\ inv[i].hits = {} /\ inv[j].hits = {}
      /\ inv[i].term = "none" /\ inv[j].term = "none"

C19_LaterWriteWins == [][C19_Write /\ C19_Race']_vars

C19_Witness ==
  \E i, j \in Invs :
    /\ C19_BothWrote(i, j)
    /\ reg[inv[i].name].by = inv[j].seq /\ reg[inv[i].name].pid = inv[j].spawned
    /\ inv[i].spawned # inv[j].spawned
    /\ procs[inv[i].spawned].alive /\ procs[inv[i].spawned].inst = inv[i].seq
    /\ procs[inv[j].spawned].alive /\ procs[inv[j].spawned].inst = inv[j].seq
    /\ \A n \in Names : reg[n].pid # inv[i].spawned

\* C20: a command line with a bad name, a bad directory, a bad number, no
\* name, no command or a misplaced --timeout is refused by parseArgs or
\* validateOptions, and the refused invocation exits 1 in that one step: it
\* reads, writes and deletes no record and no log file, sends no request and
\* spawns nothing.
C20_Refused ==
  /\ \A a \in BadArgs :
       ~parseArgs(a).success \/ ~validateOptions(parseArgs(a).options).success
  /\ \A a \in GoodArgs :
       parseArgs(a).success /\ validateOptions(parseArgs(a).options).success

C20_Step ==
  \A i \in Invs :
    (inv'[i].op = "rejected" /\ inv'[i] # inv[i]) =>
      /\ inv'[i].pc = "done" /\ inv'[i].exit = 1
      /\ reg' = reg /\ logs' = logs /\ procs' = procs
      /\ inv'[i].pid = NoPid /\ inv'[i].verdict = "none"
      /\ inv'[i].hits = {} /\ inv'[i].req1 = "none" /\ inv'[i].req2 = "none"
      /\ inv'[i].spawned = NoPid /\ ~inv'[i].deleted /\ ~inv'[i].wrote

C20_RefusedBeforeAnyEffect == [][C20_Refused /\ C20_Step]_vars

C20_Witness ==
  \E i \in Invs :
    /\ inv[i].op = "rejected" /\ inv[i].pc = "done" /\ inv[i].exit = 1
    /\ inv[i].prev.op = "start" /\ inv[i].prev.exit = 0
    /\ reg[inv[i].prev.name].pid # NoPid
    /\ procs[reg[inv[i].prev.name].pid].alive

C22_ForwardedThenSupervisorExits ==
  (sup.pid # NoPid /\ Len(sup.fwd) > 0) ~> (sup.exit # StillRunning)

\* C22: the force-kill timer exists on Windows only, where nothing is
\* forwarded: the first signal received sets it, taskkill /F runs only once
\* its deadline has passed and the child is still alive, and the supervisor
\* then exits; on Unix a signal is forwarded and no timer is ever set.
C22_SafetyNetOnWindowsOnly ==
  /\ [](sup.pid # NoPid /\ (sup.timer # NoTime \/ sup.fired \/ sup.forced) =>
          isWindows /\ Len(sup.got) > 0 /\ Len(sup.fwd) = 0)
  /\ [](sup.pid # NoPid /\ sup.fired /\ sup.exit = StillRunning =>
          now >= sup.timer)
  /\ [](sup.pid # NoPid /\ sup.forced => sup.fired)
  /\ ((sup.pid # NoPid /\ isWindows /\ Len(sup.got) > 0)
        ~> (sup.exit # StillRunning))

C22_Witness ==
  /\ isWindows /\ sup.pid # NoPid /\ Len(sup.got) = 2
  /\ sup.forced /\ sup.code = 1 /\ sup.exit = 1

\* C23: when clean returns, no log artifact (<name>.log, <name>.log.1) is left
\* for a name that has no PID file.
C23_Returns(i) ==
  inv[i].op = "clean" /\ inv[i].pc # "done" /\ inv'[i].pc = "done"

C23_CleanLeavesNoOrphanedLog ==
  [][\A i \in Invs :
       C23_Returns(i) =>
         \A n \in Names : reg'[n].mtime = NoTime => logs'[n] = {}]_vars

\* C24: readPid right after writePid(name, pid) of a positive PID returns pid,
\* whatever the file held before; readPid right after deletePid(name) returns
\* null; deletePid of a name with no PID file returns false and changes nothing.
C24_Called(fn, name) ==
  probe'.n = probe.n + 1 /\ probe'.fn = fn /\ probe'.name = name

C24_RegistryRoundTrip ==
  [][\A name \in Names :
       /\ C24_Called("readPid", name) /\ probe.fn = "writePid"
            /\ probe.name = name =>
            probe'.retPid = probe.pid /\ probe'.files = probe.files
       /\ C24_Called("readPid", name) /\ probe.fn = "deletePid"
            /\ probe.name = name =>
            probe'.retPid = NoPid
       /\ C24_Called("deletePid", name) /\ ~probe.files[name].exists =>
            ~probe'.retBool /\ probe'.files = probe.files]_vars

C24_Witness ==
  /\ probe.n = 3 /\ probe.fn = "readPid" /\ probe.name = "app"
  /\ probe.retPid = MAX_PID
  /\ probe.files["app"].text = <<"4", "1", "9", "4", "3", "0", "4">>
  /\ ~probe.files["svc"].exists

\* C25: rotateLogIfNeeded rotates exactly when the live log exists and is
\* larger than the threshold; after a rotation the live log is gone and the
\* backup is the previous live log, whatever backup there was; without a
\* rotation the log and the backup are as before.
C25_Rotated ==
  probe.log0.exists /\ probe.log0.size > probe.maxSize

C25_RotatesIffOverThreshold ==
  probe.called =>
    /\ probe.ret <=> C25_Rotated
    /\ C25_Rotated =>
         ~probe.log.exists /\ probe.bak = probe.log0
    /\ ~C25_Rotated =>
         probe.log = probe.log0 /\ probe.bak = probe.bak0

C25_Witness ==
  /\ probe.called /\ probe.ret
  /\ probe.maxSize = DEFAULT_MAX_LOG_SIZE
  /\ probe.log0.size = DEFAULT_MAX_LOG_SIZE + 1
  /\ probe.bak0.data = "old" /\ probe.bak.data = "new"

\* C26: while a log is followed, the lines emitted so far, each with its
\* terminator, followed by the buffered partial line, are exactly the bytes
\* appended since following began and read so far; a partial line is emitted
\* only once its terminator has arrived, and nothing is emitted after stop().
RECURSIVE C26_Joined(_)
C26_Joined(lines) ==
  IF lines = <<>> THEN <<>>
  ELSE lines[1] \o <<"\n">> \o C26_Joined(Tail(lines))

C26_Consumed == SubSeq(tail.file, tail.base + 1, tail.offset)

C26_EmittedIsWhatWasAppended ==
  tail.on =>
    Utf8Encode(C26_Joined(tail.out) \o tail.partialLine) = C26_Consumed

\* C26, its last part: once stop() was called no further line is emitted.
C26_NothingAfterStop ==
  [][tail.on /\ tail.stopped => tail'.out = tail.out]_vars

\* C28: options with --timeout and no --wait, or with --tail or --lines and no
\* --logs, are refused with the error of that rule, whatever operation flags
\* come with them.
C28_Misused(o) ==
  \/ o.timeout # 0 /\ o.wait = ""
  \/ (o.tail \/ o.lines # 0) /\ o.logs = ""

C28_MisusedOptionRefused ==
  probe.called /\ C28_Misused(probe.options) =>
    /\ ~probe.output.success
    /\ probe.output.error \in {ErrTimeout, ErrTail, ErrLines}

\* C27 as stated: a poll of follow mode ends it, with exit code 0, exactly when
\* the name has no record or the PID of its record is not alive; while the
\* record exists and its PID is alive follow mode does not end on its own.
C27_Polls(i) ==
  /\ inv[i].pc = "follow" /\ now >= inv[i].wake
  /\ inv'[i].msg # "interrupted"
  /\ inv'[i] # inv[i]

C27_Ends(i) == inv'[i].pc = "done" /\ inv'[i].exit = 0

C27_EndsIffRecordGoneOrDead ==
  [][\A i \in Invs :
       C27_Polls(i) =>
         (C27_Ends(i) <=>
            \/ readPid(inv[i].name) = NoPid
            \/ ~isProcessAlive(readPid(inv[i].name)))]_vars

\* C27: follow mode reads the PID of the record once, when it begins. A poll
\* ends it, with exit code 0, exactly when that PID is no longer alive or the
\* name has no record at the poll; otherwise it keeps following, also when
\* the name has been restarted under another PID.
C27_EndsIffFollowedGoneOrUntracked ==
  [][\A i \in Invs :
       C27_Polls(i) =>
         /\ C27_Ends(i) <=>
              \/ inv[i].pid # NoPid /\ ~isProcessAlive(inv[i].pid)
              \/ readPid(inv[i].name) = NoPid
         /\ ~C27_Ends(i) => inv'[i].pc = "follow" /\ inv'[i].pid = inv[i].pid
         /\ reg' = reg /\ procs' = procs]_vars

C27_Witness ==
  \E i \in Invs :
    /\ inv[i].op = "logs" /\ inv[i].pc = "done" /\ inv[i].exit = 0
    /\ inv[i].msg = MsgHasExited
    /\ inv[i].pid = 1 /\ readPid("svc") = 2 /\ isProcessAlive(2)

\* C29: terminateProcess on a valid PID that is not alive at its first check
\* returns true (Dead) in that step: no request of killProcess or
\* forceKillProcess is made and neither wait loop is entered.
C29_DeadAtCheck(i) ==
  /\ inv[i].pc = "tcheck" /\ inv'[i] # inv[i]
  /\ inv[i].pid > 0 /\ inv[i].pid <= MAX_PID
  /\ inv[i].pid \in PIDs => ~procs[inv[i].pid].alive

C29_AlreadyDeadReturnsAtOnce ==
  [][\A i \in Invs :
       C29_DeadAtCheck(i) =>
         /\ inv'[i].pc = "after" /\ inv'[i].term = "Dead"
         /\ inv'[i].req1 = "none" /\ inv'[i].req2 = "none"
         /\ inv'[i].hits = {} /\ inv'[i].phase = "none"
         /\ inv'[i].t0 = NoTime /\ inv'[i].wake = NoTime
         /\ procs' = procs /\ now' = now]_vars

C29_Witness ==
  /\ probe.pid = 1 /\ ~procs[1].alive /\ procs[2].alive
  /\ inv[1].pc = "after" /\ inv[1].term = "Dead" /\ inv[1].pid = 1
  /\ inv[1].req1 = "none" /\ inv[1].req2 = "none"

\* C30: terminateProcess always returns, whatever the process does, and until
\* then waitForProcessToDie has asked isProcessAlive at most once per 100 ms
\* of the grace period, once per 100 ms of the 2000 ms force window, and once
\* more at the end of each of the two waits.
C30_PollBound(graceMs) ==
  (graceMs \div 100) + (2000 \div 100) + 2

C30_Poll(i) == inv[i].pc = "wloop" /\ inv'[i] # inv[i]

C30_TerminateReturnsWithinBound ==
  /\ <>(inv[1].pc = "after")
  /\ [][\A i \in Invs :
          C30_Poll(i) => inv[i].polls + 1 <= C30_PollBound(inv[i].graceMs)]_vars

C30_Witness ==
  /\ inv[1].pc = "wloop" /\ inv[1].phase = "force" /\ inv[1].graceMs = 5000
  /\ inv[1].polls = 71 /\ now - inv[1].t0 >= 2000
  /\ procs[1].alive /\ inv[1].req2 = "forceful"

\* C31: within one start the steps run in the order registry read, verify,
\* terminate, delete old record, spawn, write new record. Spawning begins
\* only with no old record read, or after the old record has been deleted
\* (for a verified one: after terminateProcess has returned Dead or
\* StillAlive); the new record is written only after the spawn has returned
\* a PID, and it holds that PID.
C31_Rank(pc) ==
  CASE pc = "read" -> 1
    [] pc = "verify" -> 2
    [] pc \in {"tcheck", "tkill", "wloop", "wsleep", "tforce"} -> 3
    [] pc \in {"after", "stale"} -> 4
    [] pc = "spawn" -> 5
    [] pc = "write" -> 6
    [] OTHER -> 7

C31_Step(i) ==
  LET a == inv[i]
      b == inv'[i]
  IN /\ C31_Rank(b.pc) >= C31_Rank(a.pc)
     /\ (a.pc = "verify" /\ b.pc # "verify") =>
          b.pc \in {"tcheck", "stale", "done"}
     /\ (a.pc # "spawn" /\ b.pc = "spawn") =>
          \/ a.pc = "read" /\ reg[a.name].pid = NoPid /\ reg' = reg
          \/ /\ a.pc = "stale" /\ ~a.same
             /\ a.req1 = "none" /\ a.req2 = "none"
             /\ b.deleted /\ reg'[a.name] = NoRec
          \/ /\ a.pc = "after" /\ a.same /\ a.term \in {"Dead", "StillAlive"}
             /\ b.deleted /\ reg'[a.name] = NoRec
     /\ (b.spawned # a.spawned) =>
          /\ a.pc = "spawn" /\ b.pc = "write"
          /\ ~procs[b.spawned].alive /\ procs'[b.spawned].alive
          /\ reg' = reg
     /\ (b.wrote /\ ~a.wrote) =>
          /\ a.pc = "write" /\ a.spawned # NoPid
          /\ reg'[a.name].pid = a.spawned
     /\ (a.pc \notin {"stale", "after", "write"}) => reg' = reg
     /\ (a.pc # "spawn") => procs' = procs

C31_StartStepsInOrder ==
  [][\A i \in Invs :
       (/\ inv[i].op = "start" /\ Running(i)
        /\ inv'[i] # inv[i] /\ inv'[i].seq = inv[i].seq) => C31_Step(i)]_vars

C31_Witness ==
  \E i \in Invs :
    /\ inv[i].op = "start" /\ inv[i].pc = "done" /\ inv[i].exit = 0
    /\ inv[i].same /\ inv[i].term \in {"Dead", "StillAlive"}
    /\ inv[i].req1 # "none" /\ inv[i].deleted /\ inv[i].wrote
    /\ reg[inv[i].name].pid = inv[i].spawned

\* C32: a start without --ensure whose verified record's process outlives
\* terminateProcess (StillAlive) only warns: its next step deletes the old
\* record and sends nothing more, it goes on to spawn and to write the new
\* PID, it fails only if the spawn or the write throws, and once it has
\* written, the record names the new PID while the old process, if it still
\* runs, is named by no record written for it.
C32_Case(i) ==
  /\ inv[i].op = "start" /\ ~inv[i].ensure
  /\ inv[i].same /\ inv[i].term = "StillAlive"

C32_Step(i) ==
  LET a == inv[i]
      b == inv'[i]
  IN /\ a.pc = "after" =>
          /\ b.pc = "spawn" /\ b.msg = MsgMayStillBeRunning /\ b.deleted
          /\ reg'[a.name] = NoRec /\ procs' = procs
          /\ b.req1 = a.req1 /\ b.req2 = a.req2 /\ b.hits = a.hits
     /\ a.pc = "spawn" =>
          \/ b.pc = "write" /\ b.spawned # NoPid /\ procs'[b.spawned].alive
          \/ b.pc = "done" /\ b.exit = 1 /\ b.msg = MsgFailedToStart
     /\ a.pc = "write" =>
          \/ /\ b.pc = "done" /\ b.exit = 0 /\ b.wrote
             /\ reg'[a.name].pid = a.spawned
             /\ (procs[a.pid].alive /\ procs[a.pid].inst = a.target) =>
                  /\ a.spawned # a.pid
                  /\ \A n \in Names :
                       ~(reg'[n].pid = a.pid /\ reg'[n].by = a.target)
          \/ b.pc = "done" /\ b.exit = 1 /\ ~b.wrote

C32_StillAliveOnlyWarns ==
  [][\A i \in Invs :
       (C32_Case(i) /\ inv'[i] # inv[i] /\ inv'[i].seq = inv[i].seq)
         => C32_Step(i)]_vars

C32_Witness ==
  \E i \in Invs :
    /\ C32_Case(i) /\ inv[i].pc = "done" /\ inv[i].exit = 0 /\ inv[i].wrote
    /\ procs[inv[i].pid].alive /\ procs[inv[i].pid].inst = inv[i].target
    /\ procs[inv[i].spawned].alive /\ procs[inv[i].spawned].inst = inv[i].seq
    /\ reg[inv[i].name].pid = inv[i].spawned
    /\ \A n \in Names : reg[n].pid # inv[i].pid

\* C33: a step of start, kill, status, pid, wait or logs leaves the record
\* and the log artifacts of every name but its own as they were: whenever a
\* step changes the record or the logs of a name, the invocation that took
\* the step was given that name.
C33_Touched(n) == reg'[n] # reg[n] \/ logs'[n] # logs[n]

C33_SingleNameOps == {"start", "kill", "status", "pid", "wait", "logs"}

C33_OnlyOwnNameTouched ==
  [][\A n \in Names :
       C33_Touched(n) =>
         \E i \in Invs :
           /\ inv'[i] # inv[i] /\ inv[i].op \in C33_SingleNameOps
           /\ inv[i].name = n
           /\ \A m \in Names \ {n} : ~C33_Touched(m)]_vars

C33_Witness ==
  \E i \in Invs :
    /\ inv[i].op \in {"start", "kill"} /\ inv[i].pc = "done" /\ inv[i].deleted
    /\ inv[i].name = "svc" /\ reg["svc"].pid # 1
    /\ reg["app"] = [pid |-> 2, mtime |-> 0, by |-> Earlier - 2]
    /\ logs["app"] = {"log"}

\* C34: within one call of terminateProcess the request of killProcess is
\* made at most once and only at its step, the request of forceKillProcess
\* at most once and only at its step, the forceful request is never made
\* unless the first request was made before it in the same call, and no
\* request is made once a liveness check of the call has found the PID dead
\* (the check inside killProcess included).
C34_AtMostOnce ==
  \A i \in Invs :
    LET a == inv[i]
        b == inv'[i]
    IN (b.seq = a.seq) =>
         /\ (b.req1 # a.req1 /\ b.req1 # "none") =>
              a.pc = "tkill" /\ a.req1 = "none" /\ a.req2 = "none"
         /\ (b.req2 # a.req2 /\ b.req2 # "none") =>
              a.pc = "tforce" /\ a.req2 = "none"

C34_FoundDead(i) ==
  /\ inv[i].pc \in {"wloop", "wsleep", "tforce"}
  /\ inv[i].phase \in {"grace", "none"} /\ inv[i].req1 = "none"

C34_NoneAfterDead ==
  \A i \in Invs :
    (C34_FoundDead(i) /\ inv'[i].seq = inv[i].seq) => inv'[i].req2 = "none"

C34_ForceOnlyAfterGraceful ==
  \A i \in Invs : inv[i].req2 # "none" => inv[i].req1 # "none"

C34_RequestsOnceAndInOrder ==
  [][C34_AtMostOnce /\ C34_NoneAfterDead /\ C34_ForceOnlyAfterGraceful']_vars

\* The part of C34 that holds: each request at most once, at its own step.
C34_OncePerStep == [][C34_AtMostOnce]_vars

\* The step in which invocation i reads the modification time of its record
\* and verifies the PID it read before.
C35_VerifyStep(i) ==
  /\ inv[i].pc = "verify" /\ inv'[i].pc # "verify"
  /\ inv[i].op \in {"start", "kill", "killAll", "status", "pid"}
  /\ getPidFileMtime(inv[i].name) # NoTime

\* C35 (as claimed): the PID and the modification time compared in one
\* verification always belong to the same version of the record, whatever
\* other invocations do between the two reads.
C35_SameVersionAlways ==
  [][\A i \in Invs :
       C35_VerifyStep(i) => reg[inv[i].name].by = inv[i].target]_vars

\* Another invocation's start has written the record of i's name since i read
\* it, and the record is still that one: it is the record of an invocation
\* of this run, neither i nor the one whose record i read.
C35_Overwritten(i) ==
  LET r == reg[inv[i].name]
  IN /\ r # NoRec
     /\ r.by >= 1 /\ r.by <= nops
     /\ r.by # inv[i].seq /\ r.by # inv[i].target

\* C35 (amended): the PID verified is the one readPid returned, the time is
\* the record's at the later getPidFileMtime; they belong to one version
\* unless an overlapping start wrote the record between the two reads, and
\* then the old PID is compared with the new record's time.
C35_SameVersionUnlessOverwritten ==
  [][\A i \in Invs :
       C35_VerifyStep(i) =>
         /\ inv'[i].pid = inv[i].pid
         /\ \/ /\ reg[inv[i].name].by = inv[i].target
               /\ reg[inv[i].name].pid = inv[i].pid
            \/ overlap /\ C35_Overwritten(i)]_vars

C35_Witness ==
  \E i \in Invs :
    /\ inv[i].op \in {"kill", "status", "pid"} /\ inv[i].pc # "verify"
    /\ inv[i].target = Earlier /\ inv[i].pid = 1
    /\ inv[i].verdict \in {"Verified", "Stale"}
    /\ C35_Overwritten(i)
    /\ reg[inv[i].name].mtime > 0

\* The step in which kill or start deletes the record of its name.
C36_DeleteStep(i) ==
  /\ inv[i].op \in {"kill", "start"} /\ inv[i].pc \in {"stale", "after"}
  /\ inv'[i].pc # inv[i].pc
  /\ reg[inv[i].name] # NoRec /\ reg'[inv[i].name] = NoRec

\* C36 (as claimed): a delete by kill, or by the delete-old-record step of
\* start, removes only the version of the record the deleting invocation
\* read, never the record another start has written meanwhile.
C36_DeletesOnlyWhatItRead ==
  [][\A i \in Invs :
       C36_DeleteStep(i) => reg[inv[i].name].by = inv[i].target]_vars

\* C36 (amended): deletePid removes whatever record the name has at that
\* moment. Kill deletes after a failed verification or after terminateProcess
\* returned Dead, start after either outcome of terminateProcess; the record
\* removed is the version read unless an overlapping start has written its
\* own record since, and then that new record is the one removed.
C36_DeletesCurrentRecord ==
  [][\A i \in Invs :
       C36_DeleteStep(i) =>
         /\ inv[i].pc = "stale" => ~inv[i].same
         /\ (inv[i].pc = "after" /\ inv[i].op = "kill") => inv[i].term = "Dead"
         /\ \/ reg[inv[i].name].by = inv[i].target
            \/ overlap /\ C35_Overwritten(i)]_vars

C36_Witness ==
  \E i \in Invs, j \in Invs :
    /\ i # j /\ inv[i].op = "kill" /\ inv[i].pc = "done" /\ inv[i].deleted
    /\ inv[i].term = "Dead" /\ inv[i].target = Earlier
    /\ inv[j].op = "start" /\ inv[j].wrote /\ inv[j].name = inv[i].name
    /\ procs[inv[j].spawned].alive /\ procs[inv[j].spawned].inst = inv[j].seq
    /\ reg[inv[i].name] = NoRec

\* What status(name) can answer in the current state: running (exit 0) when
\* the record's PID verifies against the record's time.
C37_StatusWouldRun(name) ==
  /\ readPid(name) # NoPid /\ getPidFileMtime(name) # NoTime
  /\ \E st \in getProcessStartTime(readPid(name)) :
       isSameProcessInstance(st, getPidFileMtime(name))

\* C37: whenever list runs, it reports a name as running exactly when status
\* of that name would report running in the same state; a record whose live
\* PID belongs to another process is not listed as running.
C37_ListAgreesWithStatus ==
  [][\A i \in Invs :
       (inv[i].pc = "list" /\ inv[i].op = "list" /\ inv'[i].pc = "done") =>
         \A n \in Names :
           (n \in inv'[i].listed) <=> C37_StatusWouldRun(n)]_vars

\* A start that has returned 1.
C38_Failed(i) == inv[i].op = "start" /\ inv[i].pc = "done" /\ inv[i].exit = 1

\* The process invocation i spawned runs and no record was written for it.
C38_Untracked(i) ==
  /\ inv[i].spawned # NoPid
  /\ procs[inv[i].spawned].alive /\ procs[inv[i].spawned].inst = inv[i].seq
  /\ \A n \in Names : reg[n].by # inv[i].seq

\* C38 (as claimed): a start that returns failure leaves no process it
\* spawned running without a record.
C38_FailedStartLeavesNoOrphan ==
  \A i \in Invs : C38_Failed(i) => ~C38_Untracked(i)

\* C38 (amended): a start returns 1 either from the spawn, which then created
\* no process, or from writePid throwing after the spawn; in the second case
\* the catch block only reports: the child is sent nothing, keeps running,
\* and no record is written for it.
C38_FailedStartOnlyReports ==
  [][\A i \in Invs :
       (inv[i].op = "start" /\ inv[i].pc # "done" /\ C38_Failed(i)') =>
         /\ inv'[i].msg = MsgFailedToStart /\ ~inv'[i].wrote
         /\ procs' = procs /\ reg' = reg
         /\ \/ inv[i].pc = "spawn" /\ inv'[i].spawned = NoPid
            \/ /\ inv[i].pc = "write" /\ inv[i].spawned # NoPid
               /\ inv'[i].spawned = inv[i].spawned
               /\ (/\ procs[inv[i].spawned].alive
                   /\ procs[inv[i].spawned].inst = inv[i].seq)
                    => C38_Untracked(i)']_vars

C38_Witness ==
  \E i \in Invs :
    /\ C38_Failed(i) /\ C38_Untracked(i) /\ inv[i].deleted
    /\ reg[inv[i].name] = NoRec


\* C39: when follow mode ends because the PID poll found the followed process
\* dead, no complete line of the log is left unread by the tail poll: every
\* line terminator in the file lies below the offset of the tail.
C39_ExitedOnDeath == inv[1].pc = "done" /\ inv[1].msg = MsgHasExited

C39_UnreadLine ==
  \E k \in (tail.offset + 1)..Len(tail.file) : tail.file[k] = "\n"

C39_AllLinesEmittedBeforeExit == C39_ExitedOnDeath => ~C39_UnreadLine


\* C40: after the followed log was emptied or replaced, every poll leaves the
\* follower having emitted, since then, exactly the complete lines of the new
\* file up to its offset: none skipped, none joined to text buffered before.
C40_Ascii(bytes) == \A k \in 1..Len(bytes) : bytes[k] \in {"a", "\n"}

C40_Lines(bytes) ==
  LET parts == SplitLines(Utf8Decode(bytes))
  IN SubSeq(parts, 1, Len(parts) - 1)

C40_PollAfterShrink ==
  /\ tail.shrinks > 0
  /\ tail'.shrinks = tail.shrinks
  /\ tail'.offset # tail.offset

C40_NothingSkippedOrMixed ==
  [][C40_PollAfterShrink /\ C40_Ascii(tail'.file)
       => SubSeq(tail'.out, tail'.mark + 1, Len(tail'.out))
            = C40_Lines(SubSeq(tail'.file, 1, tail'.offset))]_vars

====
